---- MODULE Spec2Model ----
(***************************************************************************)
(* A model of loggio's enhanced logger (src/src/enhanced_logger.py):      *)
(* EnhancedLogger._format_message, the five log methods, the constructor, *)
(* reconfigure and get_logger.                                            *)
(*                                                                        *)
(* Python strings are sequences of one-character strings, so that len(),  *)
(* slicing and concatenation are what they are in the program.            *)
(***************************************************************************)
EXTENDS Integers, Sequences, FiniteSets, TLC

(***************************************************************************)
(* Text constants of the source, character by character.                  *)
(***************************************************************************)
\* enhanced_logger.py:337  " - [JSON FORMAT ERROR: "
TXT_JSON_FORMAT_ERROR ==
    <<" ","-"," ","[","J","S","O","N"," ","F","O","R","M","A","T"," ","E","R","R","O","R",":"," ">>
\* enhanced_logger.py:346  " - [FORMAT ERROR: "
TXT_FORMAT_ERROR ==
    <<" ","-"," ","[","F","O","R","M","A","T"," ","E","R","R","O","R",":"," ">>
\* enhanced_logger.py:337,346  "] - Args: "
TXT_ARGS ==
    <<"]"," ","-"," ","A","r","g","s",":"," ">>
\* enhanced_logger.py:362  "... [TRUNCATED, LENGTH: "
TXT_TRUNCATED ==
    <<".",".","."," ","[","T","R","U","N","C","A","T","E","D",","," ","L","E","N","G","T","H",":"," ">>
\* enhanced_logger.py:351  ": "
TXT_UID_SEP ==
    <<":"," ">>

(***************************************************************************)
(* The messages of the exceptions str.__mod__ and json.dumps raise        *)
(* (CPython), as str(e) renders them at lines 337 and 346.                *)
(***************************************************************************)
MSG_NOT_ENOUGH ==
    <<"n","o","t"," ","e","n","o","u","g","h"," ","a","r","g","u","m","e","n","t","s"," ","f","o","r"," ","f","o","r","m","a","t"," ","s","t","r","i","n","g">>
MSG_NOT_ALL ==
    <<"n","o","t"," ","a","l","l"," ","a","r","g","u","m","e","n","t","s"," ","c","o","n","v","e","r","t","e","d"," ","d","u","r","i","n","g"," ","s","t","r","i","n","g"," ","f","o","r","m","a","t","t","i","n","g">>
MSG_INCOMPLETE ==
    <<"i","n","c","o","m","p","l","e","t","e"," ","f","o","r","m","a","t">>
MSG_REAL_REQUIRED ==
    <<"%","d"," ","f","o","r","m","a","t",":"," ","a"," ","r","e","a","l"," ","n","u","m","b","e","r"," ","i","s"," ","r","e","q","u","i","r","e","d",","," ","n","o","t"," ">>
MSG_INF_TO_INT ==
    <<"c","a","n","n","o","t"," ","c","o","n","v","e","r","t"," ","f","l","o","a","t"," ","i","n","f","i","n","i","t","y"," ","t","o"," ","i","n","t","e","g","e","r">>
MSG_UNSUPPORTED ==
    <<"u","n","s","u","p","p","o","r","t","e","d"," ","f","o","r","m","a","t"," ","c","h","a","r","a","c","t","e","r"," ","'">>
MSG_AT_INDEX ==
    <<" ","a","t"," ","i","n","d","e","x"," ">>
MSG_BAD_KEY ==
    <<"k","e","y","s"," ","m","u","s","t"," ","b","e"," ","s","t","r",","," ","i","n","t",","," ","f","l","o","a","t",","," ","b","o","o","l"," ","o","r"," ","N","o","n","e",","," ","n","o","t"," ">>

(***************************************************************************)
(* Python values.  Every value has the same four fields, so values of     *)
(* different types can sit in one tuple:                                  *)
(*   t = "str"   : s is the text                                          *)
(*   t = "int"   : n is the number                                        *)
(*   t = "float" : the float inf                                          *)
(*   t = "dict"  : e is the sequence of <<key, value>> pairs              *)
(*   t = "tuple" : e is the sequence of elements                          *)
(*   t = "set"   : e is the sequence of elements                          *)
(***************************************************************************)
PyValue(t, s, n, e) == [t |-> t, s |-> s, n |-> n, e |-> e]
PyStrVal(s) == PyValue("str", s, 0, <<>>)
PyInt(n) == PyValue("int", <<>>, n, <<>>)
PyInf == PyValue("float", <<>>, 0, <<>>)
PyDict(kv) == PyValue("dict", <<>>, 0, kv)
PyTuple(e) == PyValue("tuple", <<>>, 0, e)
PySet(e) == PyValue("set", <<>>, 0, e)

\* type(v).__name__, as the exception messages print it
TypeName(v) ==
    CASE v.t = "str" -> <<"s","t","r">>
      [] v.t = "int" -> <<"i","n","t">>
      [] v.t = "float" -> <<"f","l","o","a","t">>
      [] v.t = "dict" -> <<"d","i","c","t">>
      [] v.t = "tuple" -> <<"t","u","p","l","e">>
      [] v.t = "set" -> <<"s","e","t">>

Digit(d) ==
    CASE d = 0 -> "0" [] d = 1 -> "1" [] d = 2 -> "2" [] d = 3 -> "3"
      [] d = 4 -> "4" [] d = 5 -> "5" [] d = 6 -> "6" [] d = 7 -> "7"
      [] d = 8 -> "8" [] d = 9 -> "9"

RECURSIVE NatToStr(_)
NatToStr(n) ==
    IF n < 10 THEN <<Digit(n)>> ELSE Append(NatToStr(n \div 10), Digit(n % 10))

\* str(n) of an int
IntToStr(n) == IF n < 0 THEN <<"-">> \o NatToStr(0 - n) ELSE NatToStr(n)

Contains(s, c) == \E i \in 1..Len(s) : s[i] = c

\* the quote repr(str) puts around a text: ' unless the text holds ' and no "
ReprQuote(s) == IF Contains(s, "'") /\ ~Contains(s, "\"") THEN "\"" ELSE "'"

\* one character of repr(str): backslash, newline and the quote are escaped
ReprChar(c, q) ==
    IF c = "\\" THEN <<"\\", "\\">>
    ELSE IF c = "\n" THEN <<"\\", "n">>
    ELSE IF c = q THEN <<"\\", c>>
    ELSE <<c>>

RECURSIVE ReprChars(_, _)
ReprChars(s, q) ==
    IF s = <<>> THEN <<>> ELSE ReprChar(Head(s), q) \o ReprChars(Tail(s), q)

\* repr(s) of a str
PyReprStr(s) == <<ReprQuote(s)>> \o ReprChars(s, ReprQuote(s)) \o <<ReprQuote(s)>>

RECURSIVE PyRepr(_)
RECURSIVE ReprItems(_)
RECURSIVE ReprPairs(_)

\* repr of the elements of a tuple or set, joined by ", "
ReprItems(e) ==
    IF e = <<>> THEN <<>>
    ELSE IF Len(e) = 1 THEN PyRepr(e[1])
    ELSE PyRepr(e[1]) \o <<",", " ">> \o ReprItems(Tail(e))

\* repr of the items of a dict, "key: value" joined by ", "
ReprPairs(kv) ==
    IF kv = <<>> THEN <<>>
    ELSE IF Len(kv) = 1 THEN PyRepr(kv[1][1]) \o <<":", " ">> \o PyRepr(kv[1][2])
    ELSE PyRepr(kv[1][1]) \o <<":", " ">> \o PyRepr(kv[1][2]) \o <<",", " ">>
             \o ReprPairs(Tail(kv))

\* repr(v)
PyRepr(v) ==
    CASE v.t = "str" -> PyReprStr(v.s)
      [] v.t = "int" -> IntToStr(v.n)
      [] v.t = "float" -> <<"i","n","f">>
      [] v.t = "dict" -> <<"{">> \o ReprPairs(v.e) \o <<"}">>
      [] v.t = "tuple" ->
            IF Len(v.e) = 1 THEN <<"(">> \o PyRepr(v.e[1]) \o <<",", ")">>
            ELSE <<"(">> \o ReprItems(v.e) \o <<")">>
      [] v.t = "set" ->
            IF v.e = <<>> THEN <<"s","e","t","(",")">>
            ELSE <<"{">> \o ReprItems(v.e) \o <<"}">>

\* str(v): the text itself for a str, repr(v) for the other types
PyStr(v) == IF v.t = "str" THEN v.s ELSE PyRepr(v)

\* str(args) of an argument tuple, as the f-strings of lines 337 and 346 render it
PyStrArgs(args) == PyRepr(PyTuple(args))

(***************************************************************************)
(* The outcome of a call that may raise: a value, or an exception with    *)
(* its type name and its message str(e).                                  *)
(***************************************************************************)
Ok(val) == [ok |-> TRUE, val |-> val, exc |-> "none", detail |-> <<>>]
Raise(exc, detail) == [ok |-> FALSE, val |-> <<>>, exc |-> exc, detail |-> detail]

(***************************************************************************)
(* json.dumps(arg, indent=4, default=str), line 333.                      *)
(***************************************************************************)
\* one character inside a JSON string
JsonChar(c) ==
    IF c = "\"" THEN <<"\\", "\"">>
    ELSE IF c = "\\" THEN <<"\\", "\\">>
    ELSE IF c = "\n" THEN <<"\\", "n">>
    ELSE <<c>>

RECURSIVE JsonChars(_)
JsonChars(s) == IF s = <<>> THEN <<>> ELSE JsonChar(Head(s)) \o JsonChars(Tail(s))

\* a JSON string literal
JsonString(s) == <<"\"">> \o JsonChars(s) \o <<"\"">>

RECURSIVE Spaces(_)
Spaces(n) == IF n <= 0 THEN <<>> ELSE <<" ">> \o Spaces(n - 1)

\* the line break and indentation indent=4 puts before an item at nesting depth d
JsonNewline(d) == <<"\n">> \o Spaces(4 * d)

\* a dict key: str and int keys become JSON strings, any other key is a TypeError
\* (default= is not consulted for keys)
JsonKey(k) ==
    CASE k.t = "str" -> Ok(JsonString(k.s))
      [] k.t = "int" -> Ok(JsonString(IntToStr(k.n)))
      [] OTHER -> Raise("TypeError", MSG_BAD_KEY \o TypeName(k))

RECURSIVE JsonEncode(_, _)
RECURSIVE JsonItems(_, _)
RECURSIVE JsonPairs(_, _)

\* the elements of an array at depth d, joined by "," and a line break
JsonItems(e, d) ==
    LET first == JsonEncode(e[1], d) IN
    IF ~first.ok THEN first
    ELSE IF Len(e) = 1 THEN first
    ELSE LET rest == JsonItems(Tail(e), d) IN
         IF ~rest.ok THEN rest
         ELSE Ok(first.val \o <<",">> \o JsonNewline(d) \o rest.val)

\* the items of an object at depth d
JsonPairs(kv, d) ==
    LET key == JsonKey(kv[1][1]) IN
    IF ~key.ok THEN key
    ELSE LET val == JsonEncode(kv[1][2], d) IN
         IF ~val.ok THEN val
         ELSE IF Len(kv) = 1 THEN Ok(key.val \o <<":", " ">> \o val.val)
         ELSE LET rest == JsonPairs(Tail(kv), d) IN
              IF ~rest.ok THEN rest
              ELSE Ok(key.val \o <<":", " ">> \o val.val \o <<",">>
                          \o JsonNewline(d) \o rest.val)

\* the encoding of v whose items sit at depth d; a set is not serializable and
\* goes through default=str
JsonEncode(v, d) ==
    CASE v.t = "str" -> Ok(JsonString(v.s))
      [] v.t = "int" -> Ok(IntToStr(v.n))
      [] v.t = "float" -> Ok(<<"I","n","f","i","n","i","t","y">>)
      [] v.t = "dict" ->
            IF v.e = <<>> THEN Ok(<<"{", "}">>)
            ELSE LET body == JsonPairs(v.e, d + 1) IN
                 IF ~body.ok THEN body
                 ELSE Ok(<<"{">> \o JsonNewline(d + 1) \o body.val
                             \o JsonNewline(d) \o <<"}">>)
      [] v.t = "tuple" ->
            IF v.e = <<>> THEN Ok(<<"[", "]">>)
            ELSE LET body == JsonItems(v.e, d + 1) IN
                 IF ~body.ok THEN body
                 ELSE Ok(<<"[">> \o JsonNewline(d + 1) \o body.val
                             \o JsonNewline(d) \o <<"]">>)
      [] v.t = "set" -> Ok(JsonString(PyStr(v)))

JsonDumps(v) == JsonEncode(v, 0)

(***************************************************************************)
(* message % formatted_args, line 342: str.__mod__ with a tuple.          *)
(***************************************************************************)
\* the code point of a character, in hex, as the ValueError prints it
HexCode(c) ==
    CASE c = "A" -> <<"4","1">>
      [] c = "z" -> <<"7","a">>
      [] c = " " -> <<"2","0">>
      [] c = ":" -> <<"3","a">>

\* the conversion of one argument by the specifier character c at 0-based index i
Convert(c, arg, i) ==
    CASE c = "s" -> Ok(PyStr(arg))
      [] c = "d" ->
            CASE arg.t = "int" -> Ok(IntToStr(arg.n))
              [] arg.t = "float" -> Raise("OverflowError", MSG_INF_TO_INT)
              [] OTHER -> Raise("TypeError", MSG_REAL_REQUIRED \o TypeName(arg))
      [] OTHER ->
            Raise("ValueError",
                  MSG_UNSUPPORTED \o <<c, "'", " ", "(", "0", "x">> \o HexCode(c)
                      \o <<")">> \o MSG_AT_INDEX \o IntToStr(i))

RECURSIVE FormatFrom(_, _, _, _, _)
\* the scan of the template m from position i with the arguments from position j,
\* acc being the text produced so far
FormatFrom(m, i, args, j, acc) ==
    IF i > Len(m) THEN
        IF j <= Len(args) THEN Raise("TypeError", MSG_NOT_ALL) ELSE Ok(acc)
    ELSE IF m[i] # "%" THEN FormatFrom(m, i + 1, args, j, Append(acc, m[i]))
    ELSE IF i = Len(m) THEN Raise("ValueError", MSG_INCOMPLETE)
    ELSE IF m[i + 1] = "%" THEN FormatFrom(m, i + 2, args, j, Append(acc, "%"))
    ELSE IF j > Len(args) THEN Raise("TypeError", MSG_NOT_ENOUGH)
    ELSE LET c == Convert(m[i + 1], args[j], i) IN
         IF ~c.ok THEN c ELSE FormatFrom(m, i + 2, args, j + 1, acc \o c.val)

\* a faulty variant: the first argument is skipped
PyFormatSkipsFirstArg(message, args) == FormatFrom(message, 1, args, 2, <<>>)

PyFormat(message, args) == FormatFrom(message, 1, args, 1, <<>>)

(***************************************************************************)
(* Optional parameters: None, or a given value.                           *)
(***************************************************************************)
NoneBool == [some |-> FALSE, v |-> FALSE]
SomeBool(b) == [some |-> TRUE, v |-> b]
NoneInt == [some |-> FALSE, v |-> 0]
SomeInt(n) == [some |-> TRUE, v |-> n]
\* user_context=None, and user_context=d for a dict d
NoContext == [some |-> FALSE, v |-> PyDict(<<>>)]
Context(d) == [some |-> TRUE, v |-> d]

\* key in d, for a str key
DictHas(d, key) == \E i \in 1..Len(d.e) : d.e[i][1] = PyStrVal(key)
\* d[key]
DictGet(d, key) ==
    d.e[CHOOSE i \in 1..Len(d.e) : d.e[i][1] = PyStrVal(key)][2]

UID == <<"u","i","d">>

(***************************************************************************)
(* EnhancedLogger._format_message, lines 302-364.                         *)
(***************************************************************************)
\* the result of the method: the returned text, or the exception that left it
Returned(text) == [raised |-> "none", val |-> text]
Propagated(exc) == [raised |-> exc, val |-> <<>>]

\* a faulty variant: only ValueError is caught
CaughtValueErrorOnly(exc) == exc = "ValueError"

\* except (TypeError, ValueError), lines 335 and 343
Caught(exc) == exc \in {"TypeError", "ValueError"}

\* a faulty variant: only the first argument is encoded
EncodeArgsFirstOnly(args) ==
    IF args = <<>> THEN Ok(<<>>)
    ELSE LET first == JsonDumps(Head(args)) IN
         IF ~first.ok THEN first
         ELSE Ok(<<PyStrVal(first.val)>> \o Tail(args))

RECURSIVE EncodeArgs(_)
\* tuple(json.dumps(arg, indent=4, default=str) for arg in args), lines 332-334:
\* the arguments in order, each one on its own, the first failure ending it
EncodeArgs(args) ==
    IF args = <<>> THEN Ok(<<>>)
    ELSE LET first == JsonDumps(Head(args)) IN
         IF ~first.ok THEN first
         ELSE LET rest == EncodeArgs(Tail(args)) IN
              IF ~rest.ok THEN rest
              ELSE Ok(<<PyStrVal(first.val)>> \o rest.val)

\* a faulty variant: the template is interpolated with an empty tuple too
InterpolateAlways(message, formatted_args) ==
    LET r == PyFormat(message, formatted_args) IN
    IF r.ok THEN Returned(r.val)
    ELSE IF r.exc \in {"TypeError", "ValueError"} THEN
        Returned(message \o TXT_FORMAT_ERROR \o r.detail \o TXT_ARGS
                     \o PyStrArgs(formatted_args))
    ELSE Propagated(r.exc)

\* lines 339-347: the template is interpolated only with a non-empty argument
\* tuple; a TypeError or ValueError becomes the annotated message, which goes on
\* through the stages below; any other exception leaves the method
Interpolate(message, formatted_args) ==
    IF formatted_args = <<>> THEN Returned(message)
    ELSE LET r == PyFormat(message, formatted_args) IN
         IF r.ok THEN Returned(r.val)
         ELSE IF Caught(r.exc) THEN
             Returned(message \o TXT_FORMAT_ERROR \o r.detail \o TXT_ARGS
                          \o PyStrArgs(formatted_args))
         ELSE Propagated(r.exc)

\* a faulty variant: any non-empty user_context gives a prefix, its first value
AddUserContextAnyKey(message, user_context) ==
    IF user_context.some /\ user_context.v.e # <<>>
    THEN PyStr(user_context.v.e[1][2]) \o TXT_UID_SEP \o message
    ELSE message

\* lines 349-351
AddUserContext(message, user_context) ==
    IF user_context.some /\ user_context.v.e # <<>> /\ DictHas(user_context.v, UID)
    THEN PyStr(DictGet(user_context.v, UID)) \o TXT_UID_SEP \o message
    ELSE message

\* message[:n]: a negative n counts from the end of the text
SliceTo(message, n) ==
    LET k == IF n >= 0 THEN n ELSE Len(message) + n
        m == IF k < 0 THEN 0 ELSE IF k > Len(message) THEN Len(message) ELSE k
    IN SubSeq(message, 1, m)

\* a faulty variant: a message of exactly max_length is truncated too
TruncateAtLimit(message, should_truncate, max_length) ==
    IF should_truncate /\ Len(message) >= max_length
    THEN SliceTo(message, max_length) \o TXT_TRUNCATED \o IntToStr(Len(message))
             \o <<"]">>
    ELSE message

\* lines 359-364
Truncate(message, should_truncate, max_length) ==
    IF should_truncate /\ Len(message) > max_length
    THEN SliceTo(message, max_length) \o TXT_TRUNCATED \o IntToStr(Len(message))
             \o <<"]">>
    ELSE message

\* lines 353-357: the call's parameter when given, the instance's field otherwise
ShouldTruncate(self_truncate, truncate) ==
    IF truncate.some THEN truncate.v ELSE self_truncate
\* a faulty variant: "truncate_length or self.truncate_length", which takes 0 for
\* not given
MaxLengthZeroNotGiven(self_truncate_length, truncate_length) ==
    IF truncate_length.some /\ truncate_length.v # 0 THEN truncate_length.v
    ELSE self_truncate_length
MaxLength(self_truncate_length, truncate_length) ==
    IF truncate_length.some THEN truncate_length.v ELSE self_truncate_length

\* a faulty variant: the annotated message of a failed interpolation is returned
\* at once, like the one of a failed JSON encoding
FormatMessageErrorReturns(self_truncate, self_truncate_length, message, args, user_context, json_format, truncate, truncate_length) ==
    LET encode == json_format /\ args # <<>>
        enc == IF encode THEN EncodeArgs(args) ELSE Ok(args)
    IN IF ~enc.ok THEN
           IF Caught(enc.exc) THEN
               Returned(message \o TXT_JSON_FORMAT_ERROR \o enc.detail \o TXT_ARGS
                            \o PyStrArgs(args))
           ELSE Propagated(enc.exc)
       ELSE LET m == Interpolate(message, enc.val) IN
            IF m.raised # "none" THEN m
            ELSE IF enc.val # <<>> /\ ~PyFormat(message, enc.val).ok THEN m
            ELSE Returned(Truncate(AddUserContext(m.val, user_context),
                                   ShouldTruncate(self_truncate, truncate),
                                   MaxLength(self_truncate_length, truncate_length)))

\* a faulty variant: the message is truncated first and the uid prefix is put in
\* front of the truncated text
FormatMessagePrefixLast(self_truncate, self_truncate_length, message, args, user_context, json_format, truncate, truncate_length) ==
    LET encode == json_format /\ args # <<>>
        enc == IF encode THEN EncodeArgs(args) ELSE Ok(args)
    IN IF ~enc.ok THEN
           IF Caught(enc.exc) THEN
               Returned(message \o TXT_JSON_FORMAT_ERROR \o enc.detail \o TXT_ARGS
                            \o PyStrArgs(args))
           ELSE Propagated(enc.exc)
       ELSE LET m == Interpolate(message, enc.val) IN
            IF m.raised # "none" THEN m
            ELSE Returned(AddUserContext(Truncate(m.val,
                                                  ShouldTruncate(self_truncate, truncate),
                                                  MaxLength(self_truncate_length, truncate_length)),
                                         user_context))

\* the whole method; self_truncate and self_truncate_length are the two instance
\* fields it reads
FormatMessage(self_truncate, self_truncate_length, message, args, user_context, json_format, truncate, truncate_length) ==
    LET encode == json_format /\ args # <<>>
        enc == IF encode THEN EncodeArgs(args) ELSE Ok(args)
    IN IF ~enc.ok THEN
           IF Caught(enc.exc) THEN
               Returned(message \o TXT_JSON_FORMAT_ERROR \o enc.detail \o TXT_ARGS
                            \o PyStrArgs(args))
           ELSE Propagated(enc.exc)
       ELSE LET m == Interpolate(message, enc.val) IN
            IF m.raised # "none" THEN m
            ELSE Returned(Truncate(AddUserContext(m.val, user_context),
                                   ShouldTruncate(self_truncate, truncate),
                                   MaxLength(self_truncate_length, truncate_length)))

(***************************************************************************)
(* The state of the program.                                              *)
(***************************************************************************)
VARIABLES
    cls_instance,      \* EnhancedLogger._instance: an object, or None (line 157)
    initialized,       \* the instance's _initialized (lines 164, 234)
    logger_instance,   \* the module's _logger_instance: an object, or None (line 540)
    self,              \* the instance's configuration fields (lines 195-202)
    logger_level,      \* self.logger.level, the underlying logger's level
    handlers,          \* self.logger.handlers
    returned,          \* the objects EnhancedLogger(...) and get_logger(...) have returned
    formatter,         \* a ColoredFormatter: its use_colors and its _style._fmt
    record,            \* a logging.LogRecord, which the formatter is given
    call,              \* the call in progress: its arguments and its outcome
    file,              \* the lines in the file at fileout_path, as SpecSinks follows them
    threads,           \* the threads of the concurrent runs: each one's call, the line
                       \* it is at and its local variables
    objects            \* the EnhancedLogger objects of the concurrent runs, by number:
                       \* each one's _initialized and fields

vars == <<cls_instance, initialized, logger_instance, self, logger_level, handlers, returned, formatter, record, call, file, threads, objects>>

\* Objects are numbered in the order object.__new__ creates them; None is no object.
None == 0

Levels == {"DEBUG", "INFO", "WARNING", "ERROR", "CRITICAL"}

\* the numeric value of a level name (the logging module's table)
LevelNo(level) ==
    CASE level = "DEBUG" -> 10
      [] level = "INFO" -> 20
      [] level = "WARNING" -> 30
      [] level = "ERROR" -> 40
      [] level = "CRITICAL" -> 50

\* a faulty variant: the stream handler is added before the file handler
BuildHandlersStreamFirst(fileout_path, terminal, use_colors) ==
    (IF terminal
        THEN <<[kind |-> "stream", path |-> "None", use_colors |-> use_colors]>>
        ELSE <<>>)
    \o (IF fileout_path # "None"
        THEN <<[kind |-> "file", path |-> fileout_path, use_colors |-> FALSE]>>
        ELSE <<>>)

\* lines 217-231 and 286-300: the file handler first, then the stream handler,
\* whose ColoredFormatter takes use_colors
BuildHandlers(fileout_path, terminal, use_colors) ==
    (IF fileout_path # "None"
        THEN <<[kind |-> "file", path |-> fileout_path, use_colors |-> FALSE]>>
        ELSE <<>>)
    \o (IF terminal
        THEN <<[kind |-> "stream", path |-> "None", use_colors |-> use_colors]>>
        ELSE <<>>)

ClearHandlersKeeps(existing) == existing

\* lines 213-215 and 282-284: the handlers the logger has are dropped
ClearHandlers(existing) == <<>>

\* lines 213-231 and 282-300: the list is cleared, then addHandler appends the
\* new handlers to it
ResetHandlers(existing, fileout_path, terminal, use_colors) ==
    ClearHandlers(existing) \o BuildHandlers(fileout_path, terminal, use_colors)

\* the fields before __init__ has run
NoFields ==
    [name |-> "None", level |-> "None", terminal |-> FALSE, fileout_path |-> "None",
     json_format |-> FALSE, truncate_length |-> 0, truncate |-> FALSE,
     use_colors |-> FALSE]

(***************************************************************************)
(* Keyword arguments of EnhancedLogger(...), reconfigure(...) and         *)
(* get_logger(...).  "omitted" and NoneBool/NoneInt stand for a parameter *)
(* that is not passed; fileout_path can also be passed as None.           *)
(***************************************************************************)
DefaultTruncateLength == 5000
GetLoggerTruncateLength == 10000
DefaultPath == "logs/app.log"

MaxKeywords == 2
MaxTruncateLength == 2

OptBools == {NoneBool, SomeBool(TRUE), SomeBool(FALSE)}
LengthValues == {0, MaxTruncateLength, DefaultTruncateLength, GetLoggerTruncateLength}

NoKeywords ==
    [name |-> "omitted", level |-> "omitted", terminal |-> NoneBool,
     fileout_path |-> "omitted", json_format |-> NoneBool,
     truncate_length |-> NoneInt, truncate |-> NoneBool, use_colors |-> NoneBool,
     timezone |-> "omitted"]

\* no call in progress.  kw holds the keyword arguments of a constructor,
\* reconfigure or get_logger call, instance the object such a call returned
NoCall ==
    [op |-> "none", message |-> <<>>, args |-> <<>>, user_context |-> NoContext,
     json_format |-> NoneBool, truncate |-> NoneBool, truncate_length |-> NoneInt,
     result |-> Returned(<<>>), delivered |-> <<>>, kw |-> NoKeywords,
     instance |-> None]

\* the keyword sets of S with one more keyword passed
OneMore(S) ==
    S \cup {[kw EXCEPT !.name = "app"] : kw \in S}
      \cup {[kw EXCEPT !.level = l] : kw \in S, l \in Levels}
      \cup {[kw EXCEPT !.terminal = SomeBool(b)] : kw \in S, b \in BOOLEAN}
      \cup {[kw EXCEPT !.fileout_path = p] : kw \in S, p \in {"None", DefaultPath}}
      \cup {[kw EXCEPT !.json_format = SomeBool(b)] : kw \in S, b \in BOOLEAN}
      \cup {[kw EXCEPT !.truncate_length = SomeInt(n)] : kw \in S, n \in LengthValues}
      \cup {[kw EXCEPT !.truncate = SomeBool(b)] : kw \in S, b \in BOOLEAN}
      \cup {[kw EXCEPT !.use_colors = SomeBool(b)] : kw \in S, b \in BOOLEAN}
      \cup {[kw EXCEPT !.timezone = "UTC"] : kw \in S}

RECURSIVE KeywordsUpTo(_)
KeywordsUpTo(k) == IF k = 0 THEN {NoKeywords} ELSE OneMore(KeywordsUpTo(k - 1))

\* every call that passes at most MaxKeywords keyword arguments
KeywordArgs == KeywordsUpTo(MaxKeywords)

OrBool(opt, default) == IF opt.some THEN opt.v ELSE default
OrInt(opt, default) == IF opt.some THEN opt.v ELSE default
OrName(given, default) == IF given # "omitted" THEN given ELSE default

(***************************************************************************)
(* EnhancedLogger(...): __new__ (lines 160-165) and __init__ (167-234).   *)
(***************************************************************************)
\* the fields __init__ assigns, lines 195-202, from its parameters and defaults
InitFields(kw) ==
    [name |-> OrName(kw.name, "None"),
     level |-> OrName(kw.level, "INFO"),
     terminal |-> OrBool(kw.terminal, TRUE),
     fileout_path |-> OrName(kw.fileout_path, DefaultPath),
     json_format |-> OrBool(kw.json_format, FALSE),
     truncate_length |-> OrInt(kw.truncate_length, DefaultTruncateLength),
     truncate |-> OrBool(kw.truncate, TRUE),
     use_colors |-> OrBool(kw.use_colors, TRUE)]

\* The parameters of __init__ (lines 167-177), reconfigure (236-246) and
\* get_logger (544-553) are the same eight names: a call that passes another
\* keyword raises TypeError before the body runs.
Accepted(kw) == kw.timezone = "omitted"

\* super().__new__(cls), line 163: an object that did not exist before; objects
\* being numbered in creation order, the one after the latest
ObjectNew(latest) == latest + 1

NewAlwaysCreates(instance) == ObjectNew(instance)

\* __new__, lines 160-165: the instance is created when there is none
New(instance) == IF instance = None THEN ObjectNew(instance) ELSE instance

\* the outcome of a constructor, reconfigure or get_logger call
Outcome(kw) == IF Accepted(kw) THEN Returned(<<>>) ELSE Propagated("TypeError")

InitSkipNever(was_initialized) == FALSE

\* line 192: __init__ returns at once when the instance is initialized
InitSkip(was_initialized) == was_initialized

\* the constructor call: __new__ runs first and takes any arguments (line 160),
\* an object it creates starts uninitialized (line 164); then __init__ either
\* fails to bind its arguments, or returns at line 193, or runs its body
Construct(kw) ==
    /\ cls_instance' = New(cls_instance)
    /\ LET was_initialized == cls_instance' = cls_instance /\ initialized
       IN IF ~Accepted(kw)
          THEN /\ initialized' = was_initialized
               /\ UNCHANGED <<self, logger_level, handlers>>
          ELSE /\ initialized' = TRUE
               /\ IF InitSkip(was_initialized)
                  THEN UNCHANGED <<self, logger_level, handlers>>
                  ELSE /\ self' = InitFields(kw)
                       /\ logger_level' = LevelNo(self'.level)
                       /\ handlers' = ResetHandlers(handlers, self'.fileout_path,
                                                    self'.terminal, self'.use_colors)

ConstructCall ==
    /\ call.op = "none"
    /\ \E kw \in KeywordArgs :
          /\ Construct(kw)
          /\ call' = [NoCall EXCEPT !.op = "EnhancedLogger", !.kw = kw,
                                    !.result = Outcome(kw),
                                    !.instance = IF Accepted(kw) THEN cls_instance'
                                                 ELSE None]
          /\ returned' = IF Accepted(kw) THEN returned \cup {cls_instance'}
                          ELSE returned
    /\ UNCHANGED <<logger_instance, formatter, record, file, threads, objects>>

(***************************************************************************)
(* reconfigure(...), lines 236-300.                                       *)
(***************************************************************************)
\* lines 259-276: only the parameters that are not None are assigned
ReconfigureAsInit(old, kw) == InitFields(kw)

ReconfigureFields(old, kw) ==
    [name |-> OrName(kw.name, old.name),
     level |-> OrName(kw.level, old.level),
     terminal |-> OrBool(kw.terminal, old.terminal),
     fileout_path |-> IF kw.fileout_path \in {"omitted", "None"}
                      THEN old.fileout_path ELSE kw.fileout_path,
     json_format |-> OrBool(kw.json_format, old.json_format),
     truncate_length |-> OrInt(kw.truncate_length, old.truncate_length),
     truncate |-> OrBool(kw.truncate, old.truncate),
     use_colors |-> OrBool(kw.use_colors, old.use_colors)]

Reconfigure(kw) ==
    /\ self' = ReconfigureFields(self, kw)
    /\ logger_level' = IF kw.level # "omitted" THEN LevelNo(self'.level)
                       ELSE logger_level
    /\ handlers' = ResetHandlers(handlers, self'.fileout_path, self'.terminal,
                                 self'.use_colors)

\* logger.reconfigure(...) on the instance a constructor or get_logger returned
ReconfigureCall ==
    /\ call.op = "none"
    /\ initialized
    /\ \E kw \in KeywordArgs :
          /\ IF Accepted(kw) THEN Reconfigure(kw)
             ELSE UNCHANGED <<self, logger_level, handlers>>
          /\ call' = [NoCall EXCEPT !.op = "reconfigure", !.kw = kw,
                                    !.result = Outcome(kw)]
    /\ UNCHANGED <<cls_instance, initialized, logger_instance, returned, formatter, record, file, threads, objects>>

(***************************************************************************)
(* get_logger(...), lines 544-600.                                        *)
(***************************************************************************)
\* a faulty variant: what the caller omits is passed on as not given
GetLoggerArgsAsGiven(kw) == kw

\* the arguments get_logger passes on: its own defaults for what is omitted
GetLoggerArgs(kw) ==
    [name |-> kw.name,
     level |-> OrName(kw.level, "INFO"),
     terminal |-> SomeBool(OrBool(kw.terminal, TRUE)),
     fileout_path |-> OrName(kw.fileout_path, "None"),
     json_format |-> SomeBool(OrBool(kw.json_format, FALSE)),
     truncate_length |-> SomeInt(OrInt(kw.truncate_length, GetLoggerTruncateLength)),
     truncate |-> SomeBool(OrBool(kw.truncate, TRUE)),
     use_colors |-> SomeBool(OrBool(kw.use_colors, TRUE)),
     timezone |-> "omitted"]

\* a faulty variant: an instance that exists is reconfigured on the first call too
GetLoggerReconfiguresExisting(kw) ==
    IF cls_instance = None \/ ~initialized
    THEN /\ Construct(GetLoggerArgs(kw))
         /\ logger_instance' = cls_instance'
    ELSE /\ Reconfigure(GetLoggerArgs(kw))
         /\ logger_instance' = cls_instance
         /\ UNCHANGED <<cls_instance, initialized>>

\* lines 575-600: the first call constructs, every later call reconfigures
GetLogger(kw) ==
    IF logger_instance = None
    THEN /\ Construct(GetLoggerArgs(kw))
         /\ logger_instance' = cls_instance'
    ELSE /\ Reconfigure(GetLoggerArgs(kw))
         /\ UNCHANGED <<cls_instance, initialized, logger_instance>>

GetLoggerCall ==
    /\ call.op = "none"
    /\ \E kw \in KeywordArgs :
          /\ IF Accepted(kw) THEN GetLogger(kw)
             ELSE UNCHANGED <<cls_instance, initialized, logger_instance, self,
                              logger_level, handlers>>
          /\ call' = [NoCall EXCEPT !.op = "get_logger", !.kw = kw,
                                    !.result = Outcome(kw),
                                    !.instance = IF Accepted(kw) THEN logger_instance'
                                                 ELSE None]
          /\ returned' = IF Accepted(kw) THEN returned \cup {logger_instance'}
                          ELSE returned
    /\ UNCHANGED <<formatter, record, file, threads, objects>>

(***************************************************************************)
(* Assignments to the instance's attributes (logging_demo.py:44-47).      *)
(***************************************************************************)
SetTruncate ==
    /\ call.op = "none"
    /\ initialized
    /\ \E b \in BOOLEAN : self' = [self EXCEPT !.truncate = b]
    /\ UNCHANGED <<cls_instance, initialized, logger_instance, logger_level, handlers, returned, formatter, record, call, file, threads, objects>>

SetTruncateLength ==
    /\ call.op = "none"
    /\ initialized
    /\ \E n \in LengthValues : self' = [self EXCEPT !.truncate_length = n]
    /\ UNCHANGED <<cls_instance, initialized, logger_instance, logger_level, handlers, returned, formatter, record, call, file, threads, objects>>

(***************************************************************************)
(* The log methods debug, info, warning, error, critical (lines 366-504) *)
(* and a direct call of _format_message, as the tests make it.           *)
(***************************************************************************)
Methods == {"debug", "info", "warning", "error", "critical"}

MethodLevel(op) ==
    CASE op = "debug" -> "DEBUG"
      [] op = "info" -> "INFO"
      [] op = "warning" -> "WARNING"
      [] op = "error" -> "ERROR"
      [] op = "critical" -> "CRITICAL"

\* the json_format the method hands to _format_message: its own parameter, whose
\* default is False (lines 371, 399, 427, 455, 483 and 307)
JsonFormatParam(json_format) == OrBool(json_format, FALSE)

\* self.logger.<method>(formatted_message): the record goes to every handler when
\* the logger is enabled for the method's level
Deliver(op) ==
    IF LevelNo(MethodLevel(op)) >= logger_level
    THEN [i \in 1..Len(handlers) |-> handlers[i].kind]
    ELSE <<>>

\* one log method: the message is formatted, then handed to the underlying logger;
\* an exception of _format_message leaves the method before anything is logged
Log(op, message, args, user_context, json_format, truncate, truncate_length) ==
    LET r == FormatMessage(self.truncate, self.truncate_length, message, args,
                           user_context, JsonFormatParam(json_format), truncate,
                           truncate_length)
    IN call' = [op |-> op, message |-> message, args |-> args,
                user_context |-> user_context, json_format |-> json_format,
                truncate |-> truncate, truncate_length |-> truncate_length,
                result |-> r,
                delivered |-> IF r.raised = "none" THEN Deliver(op) ELSE <<>>,
                kw |-> NoKeywords, instance |-> None]

\* logger._format_message(message, args, user_context, json_format, truncate,
\* truncate_length) called directly
DirectFormat(message, args, user_context, json_format, truncate, truncate_length) ==
    call' = [op |-> "_format_message", message |-> message, args |-> args,
             user_context |-> user_context, json_format |-> json_format,
             truncate |-> truncate, truncate_length |-> truncate_length,
             result |-> FormatMessage(self.truncate, self.truncate_length, message,
                                      args, user_context,
                                      JsonFormatParam(json_format), truncate,
                                      truncate_length),
             delivered |-> <<>>, kw |-> NoKeywords, instance |-> None]

\* the call returns (or its exception has left it): the next statement can run
Return ==
    /\ call.op # "none"
    /\ call' = NoCall
    /\ UNCHANGED <<cls_instance, initialized, logger_instance, self, logger_level, handlers, returned, formatter, record, file, threads, objects>>

(***************************************************************************)
(* The inputs of the calls.                                               *)
(***************************************************************************)
ArgStr == PyStrVal(<<"t">>)
ArgInt == PyInt(42)
\* {"k": {"n": 1}}
ArgNested == PyDict(<< <<PyStrVal(<<"k">>), PyDict(<< <<PyStrVal(<<"n">>), PyInt(1)>> >>)>> >>)
\* {1}: a set is not JSON serializable
ArgSet == PySet(<<PyInt(1)>>)
\* {(1,): "v"}: a dict json.dumps rejects for its key
ArgBadKey == PyDict(<< <<PyTuple(<<PyInt(1)>>), PyStrVal(<<"v">>)>> >>)

ArgValues == {ArgStr, ArgInt, PyInf, ArgNested, ArgSet, ArgBadKey}

MaxArgs == 1

ArgTuples == UNION {[1..k -> ArgValues] : k \in 0..MaxArgs}

\* templates over the characters "%", "s", "d" and the plain letter "A": plain
\* text, "%%", "%s", "%d", an unsupported specifier and an incomplete one
Templates ==
    {<<>>, <<"A">>, <<"A","A","A">>, <<"%">>, <<"%","%">>, <<"%","%","s">>,
     <<"%","s">>, <<"%","d">>, <<"%","A">>, <<"A","%","s","A">>,
     <<"%","s","%","d">>, <<"%","d","%">>}

\* the scenarios of the tests (test_enhanced_logger.py:480-484 and 501-508)
ValueCountTemplate ==
    <<"V", "a", "l", "u", "e", ":", " ", "%", "s", ",", " ", "C", "o", "u", "n", "t", ":", " ", "%", "d">>
ValueCountArgs == <<PyStrVal(<<"t","e","s","t">>), PyInt(42)>>
DataTemplate ==
    <<"D", "a", "t", "a", ":", " ", "%", "s">>
DataArgs == <<PyDict(<< <<PyStrVal(<<"k","e","y">>), PyStrVal(<<"v","a","l","u","e">>)>> >>)>>

Scenarios == {<<ValueCountTemplate, ValueCountArgs>>, <<DataTemplate, DataArgs>>}

\* the template and arguments of a direct call
FormatInputs == (Templates \X ArgTuples) \cup Scenarios

UserContexts ==
    {NoContext,
     Context(PyDict(<<>>)),
     Context(PyDict(<< <<PyStrVal(<<"e","m","a","i","l">>), PyStrVal(<<"e">>)>> >>)),
     Context(PyDict(<< <<PyStrVal(UID), PyStrVal(<<"%","s">>)>>,
                       <<PyStrVal(<<"e","m","a","i","l">>), PyStrVal(<<"e">>)>> >>))}

\* truncate_length as a call passes it: omitted, negative, 0 and small lengths
CallLengths == {NoneInt} \cup {SomeInt(n) : n \in -1..MaxTruncateLength}

FormatMessageCall ==
    /\ call.op = "none"
    /\ initialized
    /\ \E in \in FormatInputs, uc \in UserContexts, jf \in BOOLEAN,
          tr \in OptBools, tl \in CallLengths :
          DirectFormat(in[1], in[2], uc, SomeBool(jf), tr, tl)
    /\ UNCHANGED <<cls_instance, initialized, logger_instance, self, logger_level, handlers, returned, formatter, record, file, threads, objects>>

\* a plain message one character longer than MaxTruncateLength
LongMessage == [i \in 1..(MaxTruncateLength + 1) |-> "A"]

\* the calls of the log methods: a long plain message under every truncation
\* setting, a template with one argument under every json_format setting, and
\* "%d" with the number 42 and with the float inf
LogInputs ==
    {[message |-> LongMessage, args |-> <<>>, user_context |-> NoContext,
      json_format |-> NoneBool, truncate |-> tr, truncate_length |-> tl] :
        tr \in OptBools, tl \in {NoneInt, SomeInt(0), SomeInt(MaxTruncateLength)}}
    \cup
    {[message |-> <<"%","s">>, args |-> <<a>>, user_context |-> uc,
      json_format |-> jf, truncate |-> NoneBool, truncate_length |-> NoneInt] :
        a \in {ArgNested}, jf \in OptBools,
        uc \in {NoContext, Context(PyDict(<< <<PyStrVal(UID), PyStrVal(<<"u">>)>> >>))}}
    \cup
    {[message |-> <<"%","d">>, args |-> <<a>>, user_context |-> NoContext,
      json_format |-> NoneBool, truncate |-> NoneBool, truncate_length |-> NoneInt] :
        a \in {ArgInt, PyInf}}

LogCall ==
    /\ call.op = "none"
    /\ initialized
    /\ \E op \in Methods, in \in LogInputs :
          Log(op, in.message, in.args, in.user_context, in.json_format,
              in.truncate, in.truncate_length)
    /\ UNCHANGED <<cls_instance, initialized, logger_instance, self, logger_level, handlers, returned, formatter, record, file, threads, objects>>

(***************************************************************************)
(* Colors (lines 9-37) and ColoredFormatter (lines 40-99).                *)
(*                                                                        *)
(* ESC stands for the one character "\033".  A format template is a       *)
(* sequence whose elements are its literal characters and its field       *)
(* references, "%(levelname)s" and the like, each reference one element.  *)
(***************************************************************************)
ESC == "ESC"

\* "\033[<code>m"
Sgr(code) == <<ESC, "[">> \o code \o <<"m">>

RESET == Sgr(<<"0">>)
BOLD == Sgr(<<"1">>)
CYAN == Sgr(<<"3","6">>)
WHITE == Sgr(<<"3","7">>)
BG_RED == Sgr(<<"4","1">>)
BRIGHT_RED == Sgr(<<"9","1">>)
BRIGHT_GREEN == Sgr(<<"9","2">>)
BRIGHT_YELLOW == Sgr(<<"9","3">>)
BRIGHT_BLUE == Sgr(<<"9","4">>)

LevelColorAlwaysGreen(levelno) == BRIGHT_GREEN

\* self.LEVEL_COLORS.get(record.levelno, Colors.RESET), lines 44-50 and 78
LevelColor(levelno) ==
    CASE levelno = LevelNo("DEBUG") -> BRIGHT_BLUE
      [] levelno = LevelNo("INFO") -> BRIGHT_GREEN
      [] levelno = LevelNo("WARNING") -> BRIGHT_YELLOW
      [] levelno = LevelNo("ERROR") -> BRIGHT_RED
      [] levelno = LevelNo("CRITICAL") -> BG_RED \o WHITE \o BOLD
      [] OTHER -> RESET

F_LEVELNAME == "%(levelname)s"
F_ASCTIME == "%(asctime)s"
F_FILENAME == "%(filename)s"
F_LINENO == "%(lineno)d"
F_MESSAGE == "%(message)s"

\* line 210: "%(levelname)s:[%(asctime)s]%(filename)s:%(lineno)d:%(message)s"
base_format ==
    <<F_LEVELNAME, ":", "[", F_ASCTIME, "]", F_FILENAME, ":", F_LINENO, ":", F_MESSAGE>>

\* the template of the tests: "%(levelname)s:%(message)s"
LevelMessageFormat == <<F_LEVELNAME, ":", F_MESSAGE>>

\* "%(filename)s:%(lineno)d", the text line 86 looks for
FileLine == <<F_FILENAME, ":", F_LINENO>>

\* old occurs in s at index i
OccursAt(s, i, old) ==
    i + Len(old) - 1 <= Len(s) /\ SubSeq(s, i, i + Len(old) - 1) = old

RECURSIVE ReplaceFrom(_, _, _, _)
ReplaceFrom(s, i, old, new) ==
    IF i > Len(s) THEN <<>>
    ELSE IF OccursAt(s, i, old) THEN new \o ReplaceFrom(s, i + Len(old), old, new)
    ELSE <<s[i]>> \o ReplaceFrom(s, i + 1, old, new)

\* s.replace(old, new): every occurrence, left to right
Replace(s, old, new) == ReplaceFrom(s, 1, old, new)

\* logging.getLevelName(levelno): the name of a mapped level, "Level <n>" otherwise
LevelName(levelno) ==
    CASE levelno = LevelNo("DEBUG") -> <<"D","E","B","U","G">>
      [] levelno = LevelNo("INFO") -> <<"I","N","F","O">>
      [] levelno = LevelNo("WARNING") -> <<"W","A","R","N","I","N","G">>
      [] levelno = LevelNo("ERROR") -> <<"E","R","R","O","R">>
      [] levelno = LevelNo("CRITICAL") -> <<"C","R","I","T","I","C","A","L">>
      [] OTHER -> <<"L","e","v","e","l"," ">> \o IntToStr(levelno)

\* logging.LogRecord(name, level, "test.py", 42, msg, (), None), as the tests
\* build it.  formatted counts the format calls the record has been through.
LogRecord(levelno, msg) ==
    [levelno |-> levelno, levelname |-> LevelName(levelno),
     filename |-> <<"t","e","s","t",".","p","y">>, lineno |-> 42, msg |-> msg,
     asctime |-> <<>>, formatted |-> 0]

\* the text of one element of a template: a field of the record, or the character
FieldText(r, token) ==
    CASE token = F_LEVELNAME -> r.levelname
      [] token = F_ASCTIME -> r.asctime
      [] token = F_FILENAME -> r.filename
      [] token = F_LINENO -> IntToStr(r.lineno)
      [] token = F_MESSAGE -> r.msg
      [] OTHER -> <<token>>

\* self._style._fmt % record.__dict__
RECURSIVE StyleFormat(_, _)
StyleFormat(fmt, r) ==
    IF fmt = <<>> THEN <<>> ELSE FieldText(r, Head(fmt)) \o StyleFormat(Tail(fmt), r)

\* self.formatTime(record, self.datefmt): the reading of the clock, a plain text
Timestamp == <<"0","9",":","3","0">>

\* logging.Formatter.format: asctime is set when the template uses it, then the
\* template is filled in (a record without exc_info)
FormatterFormat(fmt, r) ==
    LET timed == IF Contains(fmt, F_ASCTIME) THEN [r EXCEPT !.asctime = Timestamp] ELSE r
    IN [text |-> StyleFormat(fmt, timed), record |-> timed]

\* lines 84-91: file name and line number in cyan, the timestamp in bold
ColoredTemplate(fmt) ==
    Replace(Replace(fmt, FileLine, CYAN \o FileLine \o RESET),
            <<F_ASCTIME>>, BOLD \o <<F_ASCTIME>> \o RESET)

\* line 81: record.levelname is assigned the colored level name
ColoredLevelName(r) ==
    [r EXCEPT !.levelname = LevelColor(r.levelno) \o @ \o RESET]

\* a faulty variant: line 97 is missing, the colored template stays in
\* self._style._fmt
ColoredFormatterFormatKeepsTemplate(f, r) ==
    LET styled == IF f.use_colors THEN ColoredLevelName(r) ELSE r
        template == IF f.use_colors THEN ColoredTemplate(f.fmt) ELSE f.fmt
        out == FormatterFormat(template, styled)
    IN [text |-> out.text,
        record |-> [out.record EXCEPT !.formatted = @ + 1],
        fmt |-> template]

\* ColoredFormatter.format, lines 64-99: the text it returns, the record as it
\* leaves it and the template it leaves in self._style._fmt (restored, line 97)
ColoredFormatterFormat(f, r) ==
    LET styled == IF f.use_colors THEN ColoredLevelName(r) ELSE r
        template == IF f.use_colors THEN ColoredTemplate(f.fmt) ELSE f.fmt
        out == FormatterFormat(template, styled)
    IN [text |-> out.text,
        record |-> [out.record EXCEPT !.formatted = @ + 1],
        fmt |-> f.fmt]

\* no formatter made yet, no record made yet
NoFormatter == [use_colors |-> FALSE, fmt |-> <<>>]
NoRecord == [LogRecord(0, <<>>) EXCEPT !.levelname = <<>>]

MaxFormats == 2

FormatTemplates == {base_format, LevelMessageFormat, <<F_MESSAGE>>}

\* the levels with a color and one without (test_format_unknown_log_level)
RecordLevels == {LevelNo(l) : l \in Levels} \cup {99}

\* a zone name that does not resolve (test_format_time_with_invalid_timezone)
InvalidZone == "Invalid/Timezone"

\* ColoredFormatter(fmt=..., use_colors=..., timezone=...): __init__ (line 52)
\* takes fmt, datefmt, style and use_colors
FormatterCall ==
    /\ call.op = "none"
    /\ \E fmt \in FormatTemplates, use_colors \in BOOLEAN,
          timezone \in {"omitted", InvalidZone} :
          LET kw == [NoKeywords EXCEPT !.use_colors = SomeBool(use_colors),
                                       !.timezone = timezone]
          IN /\ formatter' = IF Accepted(kw)
                             THEN [use_colors |-> use_colors, fmt |-> fmt]
                             ELSE formatter
             /\ call' = [NoCall EXCEPT !.op = "ColoredFormatter", !.kw = kw,
                                       !.result = Outcome(kw)]
    /\ UNCHANGED <<cls_instance, initialized, logger_instance, self, logger_level, handlers, returned, record, file, threads, objects>>

\* logging.LogRecord(...)
RecordCall ==
    /\ call.op = "none"
    /\ \E levelno \in RecordLevels :
          record' = LogRecord(levelno, <<"m","s","g">>)
    /\ call' = [NoCall EXCEPT !.op = "LogRecord"]
    /\ UNCHANGED <<cls_instance, initialized, logger_instance, self, logger_level, handlers, returned, formatter, file, threads, objects>>

\* formatter.format(record)
FormatCall ==
    /\ call.op = "none"
    /\ formatter # NoFormatter
    /\ record # NoRecord
    /\ record.formatted < MaxFormats
    /\ LET out == ColoredFormatterFormat(formatter, record)
       IN /\ call' = [NoCall EXCEPT !.op = "format", !.result = Returned(out.text)]
          /\ record' = out.record
          /\ formatter' = [formatter EXCEPT !.fmt = out.fmt]
    /\ UNCHANGED <<cls_instance, initialized, logger_instance, self, logger_level, handlers, returned, file, threads, objects>>

(***************************************************************************)
(* The sinks: what the handlers write when a log call reaches them.       *)
(***************************************************************************)
\* a faulty variant: the file is opened for writing, which empties it
OpenTruncates(content) == <<>>

\* logging.FileHandler(self.fileout_path, "a"), lines 220 and 289: the file is
\* opened for appending, what it holds stays
OpenAppend(content) == content

\* the file after a constructor or reconfigure call has built its handlers
FileOpened(content, fileout_path) ==
    IF fileout_path # "None" THEN OpenAppend(content) ELSE content

\* a handler formats the record: the file handler with logging.Formatter on
\* base_format (line 219), the stream handler with its ColoredFormatter
\* (lines 226-228)
HandlerFormat(h, r) ==
    IF h.kind = "file" THEN FormatterFormat(base_format, r)
    ELSE LET out == ColoredFormatterFormat([use_colors |-> h.use_colors,
                                            fmt |-> base_format], r)
         IN [text |-> out.text, record |-> out.record]

\* self.logger.<method>(formatted_message): the one record goes to the handlers
\* in the order of the list, each handler getting it as the one before left it
RECURSIVE Emit(_, _)
Emit(hs, r) ==
    IF hs = <<>> THEN <<>>
    ELSE LET out == HandlerFormat(Head(hs), r)
         IN <<[kind |-> Head(hs).kind, text |-> out.text]>> \o Emit(Tail(hs), out.record)

\* the lines the file handlers wrote
RECURSIVE FileLines(_)
FileLines(emitted) ==
    IF emitted = <<>> THEN <<>>
    ELSE (IF Head(emitted).kind = "file" THEN <<Head(emitted).text>> ELSE <<>>)
             \o FileLines(Tail(emitted))

MaxLines == 2

\* the calls of the runs that follow the file: no keyword, or one of these
SinkKeywords ==
    {NoKeywords,
     [NoKeywords EXCEPT !.fileout_path = "None"],
     [NoKeywords EXCEPT !.fileout_path = DefaultPath],
     [NoKeywords EXCEPT !.terminal = SomeBool(FALSE)],
     [NoKeywords EXCEPT !.terminal = SomeBool(TRUE)],
     [NoKeywords EXCEPT !.use_colors = SomeBool(FALSE)],
     [NoKeywords EXCEPT !.level = "DEBUG"],
     [NoKeywords EXCEPT !.level = "ERROR"]}

SinkMessages == {<<"m","s","g">>, <<"A">>}

\* EnhancedLogger(...): the body of __init__, when it runs, opens the file
SinkConstructCall ==
    /\ call.op = "none"
    /\ \E kw \in SinkKeywords :
          /\ Construct(kw)
          /\ file' = IF cls_instance # None /\ initialized THEN file
                     ELSE FileOpened(file, self'.fileout_path)
          /\ call' = [NoCall EXCEPT !.op = "EnhancedLogger", !.kw = kw,
                                    !.result = Outcome(kw),
                                    !.instance = cls_instance']
          /\ returned' = returned \cup {cls_instance'}
    /\ UNCHANGED <<logger_instance, formatter, record, threads, objects>>

\* logger.reconfigure(...): the handlers are built anew, the file is opened again
SinkReconfigureCall ==
    /\ call.op = "none"
    /\ initialized
    /\ \E kw \in SinkKeywords :
          /\ Reconfigure(kw)
          /\ file' = FileOpened(file, self'.fileout_path)
          /\ call' = [NoCall EXCEPT !.op = "reconfigure", !.kw = kw,
                                    !.result = Outcome(kw)]
    /\ UNCHANGED <<cls_instance, initialized, logger_instance, returned, formatter, record, threads, objects>>

\* a log method with what its handlers write: the formatted message becomes the
\* record's message, and every file handler appends its line to the file
SinkLogCall ==
    /\ call.op = "none"
    /\ initialized
    /\ Len(file) < MaxLines
    /\ \E op \in Methods, message \in SinkMessages :
          /\ Log(op, message, <<>>, NoContext, NoneBool, NoneBool, NoneInt)
          /\ LET r == call'.result
                 emitted == IF r.raised = "none"
                               /\ LevelNo(MethodLevel(op)) >= logger_level
                            THEN Emit(handlers, LogRecord(LevelNo(MethodLevel(op)), r.val))
                            ELSE <<>>
             IN file' = file \o FileLines(emitted)
    /\ UNCHANGED <<cls_instance, initialized, logger_instance, self, logger_level, handlers, returned, formatter, record, threads, objects>>

(***************************************************************************)
(* Threads.  A thread runs one call, statement by statement; pc names the *)
(* line of the source it is about to run.  A read or a write of an        *)
(* attribute is one step, so every interleaving of the statements is a    *)
(* run.                                                                   *)
(***************************************************************************)
Threads == {1, 2}

\* a thread that has not made its call yet; the other fields are the local
\* variables of the call: kw the keyword arguments, instance the object it
\* works on (self), field the parameter reconfigure looks at next,
\* original_format and result as ColoredFormatter.format names them, fmt_read
\* the template line 91 has read, record the LogRecord given to format,
\* delivered the handlers a log call went to, body whether the call ran the
\* body of __init__
IdleThread ==
    [op |-> "none", pc |-> "idle", kw |-> NoKeywords, instance |-> None,
     field |-> 0, original_format |-> <<>>, fmt_read |-> <<>>,
     record |-> NoRecord, result |-> <<>>, delivered |-> <<>>, body |-> FALSE]

\* the thread is about to run the given line of the given call
At(t, op, pc) == threads[t].op = op /\ threads[t].pc = pc

(***************************************************************************)
(* ColoredFormatter.format (lines 64-99), one statement at a time, on one *)
(* formatter the threads share; each thread formats a record of its own.  *)
(***************************************************************************)
\* the levels of the records the threads format
ThreadLevels == {LevelNo("INFO"), LevelNo("CRITICAL")}

\* a thread calls formatter.format(record) with a new record
FormatEnter(t) ==
    /\ threads[t].pc = "idle"
    /\ \E levelno \in ThreadLevels :
          threads' = [threads EXCEPT ![t] =
                         [IdleThread EXCEPT !.op = "format", !.pc = "74",
                                            !.record = LogRecord(levelno, <<"m","s","g">>)]]
    /\ UNCHANGED <<cls_instance, initialized, logger_instance, self, logger_level, handlers, returned, formatter, record, call, file, objects>>

\* line 74: original_format = self._style._fmt; line 76: if self.use_colors
FormatLine74(t) ==
    /\ At(t, "format", "74")
    /\ threads' = [threads EXCEPT ![t].original_format = formatter.fmt,
                                  ![t].pc = IF formatter.use_colors THEN "81" ELSE "94"]
    /\ UNCHANGED <<cls_instance, initialized, logger_instance, self, logger_level, handlers, returned, formatter, record, call, file, objects>>

\* lines 78-81: record.levelname is assigned the colored level name
FormatLine81(t) ==
    /\ At(t, "format", "81")
    /\ threads' = [threads EXCEPT ![t].record = ColoredLevelName(@), ![t].pc = "85"]
    /\ UNCHANGED <<cls_instance, initialized, logger_instance, self, logger_level, handlers, returned, formatter, record, call, file, objects>>

\* lines 84-87: self._style._fmt = original_format.replace(...)
FormatLine85(t) ==
    /\ At(t, "format", "85")
    /\ formatter' = [formatter EXCEPT !.fmt =
                        Replace(threads[t].original_format, FileLine,
                                CYAN \o FileLine \o RESET)]
    /\ threads' = [threads EXCEPT ![t].pc = "91"]
    /\ UNCHANGED <<cls_instance, initialized, logger_instance, self, logger_level, handlers, returned, record, call, file, objects>>

\* line 91, its right-hand side: self._style._fmt is read
FormatLine91Read(t) ==
    /\ At(t, "format", "91")
    /\ threads' = [threads EXCEPT ![t].fmt_read = formatter.fmt, ![t].pc = "91w"]
    /\ UNCHANGED <<cls_instance, initialized, logger_instance, self, logger_level, handlers, returned, formatter, record, call, file, objects>>

\* line 91, the assignment: self._style._fmt = <what was read>.replace(...)
FormatLine91Write(t) ==
    /\ At(t, "format", "91w")
    /\ formatter' = [formatter EXCEPT !.fmt =
                        Replace(threads[t].fmt_read, <<F_ASCTIME>>,
                                BOLD \o <<F_ASCTIME>> \o RESET)]
    /\ threads' = [threads EXCEPT ![t].pc = "94"]
    /\ UNCHANGED <<cls_instance, initialized, logger_instance, self, logger_level, handlers, returned, record, call, file, objects>>

\* line 94: result = super().format(record), with the template self._style._fmt
\* holds at that moment
FormatLine94(t) ==
    /\ At(t, "format", "94")
    /\ LET out == FormatterFormat(formatter.fmt, threads[t].record)
       IN threads' = [threads EXCEPT ![t].result = out.text,
                                     ![t].record = [out.record EXCEPT !.formatted = @ + 1],
                                     ![t].pc = "97"]
    /\ UNCHANGED <<cls_instance, initialized, logger_instance, self, logger_level, handlers, returned, formatter, record, call, file, objects>>

\* line 97: self._style._fmt = original_format; line 99: return result
FormatLine97(t) ==
    /\ At(t, "format", "97")
    /\ formatter' = [formatter EXCEPT !.fmt = threads[t].original_format]
    /\ threads' = [threads EXCEPT ![t].pc = "done"]
    /\ UNCHANGED <<cls_instance, initialized, logger_instance, self, logger_level, handlers, returned, record, call, file, objects>>

(***************************************************************************)
(* reconfigure (lines 259-300), one statement at a time, and a log call   *)
(* of another thread.                                                     *)
(***************************************************************************)
\* the parameters in the order lines 260-276 look at them
Parameters ==
    <<"name", "level", "terminal", "fileout_path", "json_format", "truncate_length",
      "truncate", "use_colors">>

\* "if <parameter> is not None"
IsGiven(kw, f) ==
    IF f \in {"name", "level"} THEN kw[f] # "omitted"
    ELSE IF f = "fileout_path" THEN kw[f] \notin {"omitted", "None"}
    ELSE kw[f].some

\* the parameters after the i-th that are given
GivenAfter(kw, i) == {j \in (i + 1)..Len(Parameters) : IsGiven(kw, Parameters[j])}

\* the line after the assignments of the parameters up to the i-th: the next
\* assignment, or line 283 when nothing more is given
AfterParameter(kw, i) == IF GivenAfter(kw, i) = {} THEN "283" ELSE "260"

\* a thread calls logger.reconfigure(...)
ReconfigureEnter(t) ==
    /\ threads[t].pc = "idle"
    /\ \E kw \in SinkKeywords :
          threads' = [threads EXCEPT ![t] =
                         [IdleThread EXCEPT !.op = "reconfigure", !.kw = kw,
                                            !.instance = cls_instance,
                                            !.pc = AfterParameter(kw, 0)]]
    /\ UNCHANGED <<cls_instance, initialized, logger_instance, self, logger_level, handlers, returned, formatter, record, call, file, objects>>

\* lines 260-276: the next given parameter is assigned to its field; after
\* self.level the call of setLevel is still to come
ReconfigureField(t) ==
    /\ At(t, "reconfigure", "260")
    /\ LET kw == threads[t].kw
           i == CHOOSE j \in GivenAfter(kw, threads[t].field) :
                   \A k \in GivenAfter(kw, threads[t].field) : j <= k
           \* the keyword arguments with all but the i-th parameter left out
           only == [g \in DOMAIN NoKeywords |->
                       IF g = Parameters[i] THEN kw[g] ELSE NoKeywords[g]]
       IN /\ self' = ReconfigureFields(self, only)
          /\ threads' = [threads EXCEPT ![t].field = i,
                                        ![t].pc = IF Parameters[i] = "level" THEN "264"
                                                  ELSE AfterParameter(kw, i)]
    /\ UNCHANGED <<cls_instance, initialized, logger_instance, logger_level, handlers, returned, formatter, record, call, file, objects>>

\* line 264: self.logger.setLevel(self.level), with self.level as it is now
ReconfigureLine264(t) ==
    /\ At(t, "reconfigure", "264")
    /\ logger_level' = LevelNo(self.level)
    /\ threads' = [threads EXCEPT ![t].pc = AfterParameter(threads[t].kw, threads[t].field)]
    /\ UNCHANGED <<cls_instance, initialized, logger_instance, self, handlers, returned, formatter, record, call, file, objects>>

\* lines 283-284: the handler list is cleared
ReconfigureLine283(t) ==
    /\ At(t, "reconfigure", "283")
    /\ handlers' = ClearHandlers(handlers)
    /\ threads' = [threads EXCEPT ![t].pc = "286"]
    /\ UNCHANGED <<cls_instance, initialized, logger_instance, self, logger_level, returned, formatter, record, call, file, objects>>

\* lines 286-291: if self.fileout_path, a file handler is made and added
ReconfigureLine286(t) ==
    /\ At(t, "reconfigure", "286")
    /\ handlers' = handlers \o BuildHandlers(self.fileout_path, FALSE, FALSE)
    /\ file' = FileOpened(file, self.fileout_path)
    /\ threads' = [threads EXCEPT ![t].pc = "293"]
    /\ UNCHANGED <<cls_instance, initialized, logger_instance, self, logger_level, returned, formatter, record, call, objects>>

\* line 293: if self.terminal
ReconfigureLine293(t) ==
    /\ At(t, "reconfigure", "293")
    /\ threads' = [threads EXCEPT ![t].pc = IF self.terminal THEN "295" ELSE "done"]
    /\ UNCHANGED <<cls_instance, initialized, logger_instance, self, logger_level, handlers, returned, formatter, record, call, file, objects>>

\* lines 295-300: a stream handler is made, its ColoredFormatter with
\* self.use_colors as it is now, and added
ReconfigureLine295(t) ==
    /\ At(t, "reconfigure", "295")
    /\ handlers' = handlers \o BuildHandlers("None", TRUE, self.use_colors)
    /\ threads' = [threads EXCEPT ![t].pc = "done"]
    /\ UNCHANGED <<cls_instance, initialized, logger_instance, self, logger_level, returned, formatter, record, call, file, objects>>

\* a thread calls logger.info("msg"): the record goes to the handlers the list
\* holds at that moment
InfoCall(t) ==
    /\ threads[t].pc = "idle"
    /\ threads' = [threads EXCEPT ![t] =
                      [IdleThread EXCEPT !.op = "info", !.pc = "done",
                                         !.instance = cls_instance,
                                         !.delivered = Deliver("info")]]
    /\ UNCHANGED <<cls_instance, initialized, logger_instance, self, logger_level, handlers, returned, formatter, record, call, file, objects>>

(***************************************************************************)
(* EnhancedLogger(...) and get_logger(...), one statement at a time.  An  *)
(* object the threads create is an entry of objects: its _initialized and *)
(* its fields.  The objects share the underlying logger, which            *)
(* logging.getLogger(self.name) returns for their one name (line 204).    *)
(***************************************************************************)
\* the keyword arguments of the threads' calls
ThreadKeywords == {NoKeywords, [NoKeywords EXCEPT !.fileout_path = "None"]}

\* the thread is inside the constructor, called directly or by get_logger, at
\* the given line
InConstructor(t, pc) ==
    threads[t].op \in {"EnhancedLogger", "get_logger"} /\ threads[t].pc = pc

\* where the constructor returns to: the caller, or line 576 of get_logger
AfterConstructor(t) == IF threads[t].op = "get_logger" THEN "576" ELSE "done"

\* a thread calls EnhancedLogger(...)
ConstructEnter(t) ==
    /\ threads[t].pc = "idle"
    /\ \E kw \in ThreadKeywords :
          threads' = [threads EXCEPT ![t] =
                         [IdleThread EXCEPT !.op = "EnhancedLogger", !.kw = kw,
                                            !.pc = "162"]]
    /\ UNCHANGED <<cls_instance, initialized, logger_instance, self, logger_level, handlers, returned, formatter, record, call, file, objects>>

\* line 162: if cls._instance is None
NewLine162(t) ==
    /\ InConstructor(t, "162")
    /\ threads' = [threads EXCEPT ![t].pc = IF cls_instance = None THEN "163" ELSE "165"]
    /\ UNCHANGED <<cls_instance, initialized, logger_instance, self, logger_level, handlers, returned, formatter, record, call, file, objects>>

\* line 163: cls._instance = super().__new__(cls): the object has no field yet,
\* and its _initialized is read from the class, where it is False (line 158)
NewLine163(t) ==
    /\ InConstructor(t, "163")
    /\ objects' = Append(objects, [initialized |-> FALSE, fields |-> NoFields])
    /\ cls_instance' = ObjectNew(Len(objects))
    /\ threads' = [threads EXCEPT ![t].pc = "164"]
    /\ UNCHANGED <<initialized, logger_instance, self, logger_level, handlers, returned, formatter, record, call, file>>

\* line 164: cls._instance._initialized = False, on the object cls._instance is now
NewLine164(t) ==
    /\ InConstructor(t, "164")
    /\ objects' = [objects EXCEPT ![cls_instance].initialized = FALSE]
    /\ threads' = [threads EXCEPT ![t].pc = "165"]
    /\ UNCHANGED <<cls_instance, initialized, logger_instance, self, logger_level, handlers, returned, formatter, record, call, file>>

\* line 165: return cls._instance; __init__ is then called on what was returned
NewLine165(t) ==
    /\ InConstructor(t, "165")
    /\ threads' = [threads EXCEPT ![t].instance = cls_instance, ![t].pc = "192"]
    /\ UNCHANGED <<cls_instance, initialized, logger_instance, self, logger_level, handlers, returned, formatter, record, call, file, objects>>

\* lines 192-193: if self._initialized: return
InitLine192(t) ==
    /\ InConstructor(t, "192")
    /\ threads' = IF InitSkip(objects[threads[t].instance].initialized)
                  THEN [threads EXCEPT ![t].pc = AfterConstructor(t)]
                  ELSE [threads EXCEPT ![t].pc = "195", ![t].body = TRUE]
    /\ UNCHANGED <<cls_instance, initialized, logger_instance, self, logger_level, handlers, returned, formatter, record, call, file, objects>>

\* lines 195-206: the fields are assigned, the logger is looked up and its level set
InitLine195(t) ==
    /\ InConstructor(t, "195")
    /\ objects' = [objects EXCEPT ![threads[t].instance].fields = InitFields(threads[t].kw)]
    /\ logger_level' = LevelNo(InitFields(threads[t].kw).level)
    /\ threads' = [threads EXCEPT ![t].pc = "214"]
    /\ UNCHANGED <<cls_instance, initialized, logger_instance, self, handlers, returned, formatter, record, call, file>>

\* lines 214-215: the handler list is cleared
InitLine214(t) ==
    /\ InConstructor(t, "214")
    /\ handlers' = ClearHandlers(handlers)
    /\ threads' = [threads EXCEPT ![t].pc = "217"]
    /\ UNCHANGED <<cls_instance, initialized, logger_instance, self, logger_level, returned, formatter, record, call, file, objects>>

\* lines 217-222: if self.fileout_path, a file handler is made and added
InitLine217(t) ==
    /\ InConstructor(t, "217")
    /\ LET fields == objects[threads[t].instance].fields
       IN /\ handlers' = handlers \o BuildHandlers(fields.fileout_path, FALSE, FALSE)
          /\ file' = FileOpened(file, fields.fileout_path)
    /\ threads' = [threads EXCEPT ![t].pc = "224"]
    /\ UNCHANGED <<cls_instance, initialized, logger_instance, self, logger_level, returned, formatter, record, call, objects>>

\* lines 224-231: if self.terminal, a stream handler is made and added
InitLine224(t) ==
    /\ InConstructor(t, "224")
    /\ LET fields == objects[threads[t].instance].fields
       IN handlers' = handlers \o BuildHandlers("None", fields.terminal, fields.use_colors)
    /\ threads' = [threads EXCEPT ![t].pc = "234"]
    /\ UNCHANGED <<cls_instance, initialized, logger_instance, self, logger_level, returned, formatter, record, call, file, objects>>

\* line 234: self._initialized = True
InitLine234(t) ==
    /\ InConstructor(t, "234")
    /\ objects' = [objects EXCEPT ![threads[t].instance].initialized = TRUE]
    /\ threads' = [threads EXCEPT ![t].pc = AfterConstructor(t)]
    /\ UNCHANGED <<cls_instance, initialized, logger_instance, self, logger_level, handlers, returned, formatter, record, call, file>>

\* a thread calls get_logger(...)
GetLoggerEnter(t) ==
    /\ threads[t].pc = "idle"
    /\ \E kw \in ThreadKeywords :
          threads' = [threads EXCEPT ![t] =
                         [IdleThread EXCEPT !.op = "get_logger",
                                            !.kw = GetLoggerArgs(kw), !.pc = "575"]]
    /\ UNCHANGED <<cls_instance, initialized, logger_instance, self, logger_level, handlers, returned, formatter, record, call, file, objects>>

\* line 575: if _logger_instance is None: the constructor is called, or reconfigure
GetLoggerLine575(t) ==
    /\ At(t, "get_logger", "575")
    /\ threads' = [threads EXCEPT ![t].pc = IF logger_instance = None THEN "162" ELSE "588"]
    /\ UNCHANGED <<cls_instance, initialized, logger_instance, self, logger_level, handlers, returned, formatter, record, call, file, objects>>

\* lines 576-586: _logger_instance = <what the constructor returned>
GetLoggerLine576(t) ==
    /\ At(t, "get_logger", "576")
    /\ logger_instance' = threads[t].instance
    /\ threads' = [threads EXCEPT ![t].pc = "600"]
    /\ UNCHANGED <<cls_instance, initialized, self, logger_level, handlers, returned, formatter, record, call, file, objects>>

\* lines 588-598: _logger_instance.reconfigure(...), the whole call in one step
GetLoggerLine588(t) ==
    /\ At(t, "get_logger", "588")
    /\ LET fields == ReconfigureFields(objects[logger_instance].fields, threads[t].kw)
       IN /\ objects' = [objects EXCEPT ![logger_instance].fields = fields]
          /\ logger_level' = LevelNo(fields.level)
          /\ handlers' = ResetHandlers(handlers, fields.fileout_path, fields.terminal,
                                       fields.use_colors)
          /\ file' = FileOpened(file, fields.fileout_path)
    /\ threads' = [threads EXCEPT ![t].pc = "600"]
    /\ UNCHANGED <<cls_instance, initialized, logger_instance, self, returned, formatter, record, call>>

\* line 600: return _logger_instance
GetLoggerLine600(t) ==
    /\ At(t, "get_logger", "600")
    /\ threads' = [threads EXCEPT ![t].instance = logger_instance, ![t].pc = "done"]
    /\ UNCHANGED <<cls_instance, initialized, logger_instance, self, logger_level, handlers, returned, formatter, record, call, file, objects>>

(***************************************************************************)
(* Specifications.                                                        *)
(***************************************************************************)
\* the program after import: no instance yet
Init ==
    /\ cls_instance = None
    /\ initialized = FALSE
    /\ logger_instance = None
    /\ self = NoFields
    /\ logger_level = 0
    /\ handlers = <<>>
    /\ returned = {}
    /\ formatter = NoFormatter
    /\ record = NoRecord
    /\ call = NoCall
    /\ file = <<>>
    /\ threads = <<>>
    /\ objects = <<>>

Next ==
    \/ ConstructCall
    \/ ReconfigureCall
    \/ GetLoggerCall
    \/ SetTruncate
    \/ SetTruncateLength
    \/ LogCall
    \/ Return

Spec == Init /\ [][Next]_vars

\* _format_message as a function of its inputs: a logger constructed the way the
\* tests construct it, EnhancedLogger(truncate=.., truncate_length=..,
\* terminal=False, fileout_path=None), then direct calls
FormatKeywords(b, n) ==
    [name |-> "omitted", level |-> "omitted", terminal |-> SomeBool(FALSE),
     fileout_path |-> "None", json_format |-> NoneBool,
     truncate_length |-> SomeInt(n), truncate |-> SomeBool(b),
     use_colors |-> NoneBool, timezone |-> "omitted"]

InitFormat ==
    /\ cls_instance = New(None)
    /\ initialized = TRUE
    /\ logger_instance = None
    /\ returned = {cls_instance}
    /\ \E b \in BOOLEAN, n \in {MaxTruncateLength, DefaultTruncateLength} :
          self = InitFields(FormatKeywords(b, n))
    /\ logger_level = LevelNo(self.level)
    /\ handlers = BuildHandlers(self.fileout_path, self.terminal, self.use_colors)
    /\ formatter = NoFormatter
    /\ record = NoRecord
    /\ call = NoCall
    /\ file = <<>>
    /\ threads = <<>>
    /\ objects = <<>>

NextFormat ==
    \/ FormatMessageCall
    \/ Return

SpecFormat == InitFormat /\ [][NextFormat]_vars

\* ColoredFormatter on its own: formatters and records are made and records are
\* formatted, each record at most MaxFormats times
NextFormatter ==
    \/ FormatterCall
    \/ RecordCall
    \/ FormatCall
    \/ Return

SpecFormatter == Init /\ [][NextFormatter]_vars

\* the logger with its sinks: constructions, reconfigure calls and log calls, and
\* the file they write, up to MaxLines lines
NextSinks ==
    \/ SinkConstructCall
    \/ SinkReconfigureCall
    \/ SinkLogCall
    \/ Return

SpecSinks == Init /\ [][NextSinks]_vars

\* two threads and one ColoredFormatter made as the logger makes its terminal
\* formatter (lines 226-228): each thread calls format once
InitFormatThreads ==
    /\ cls_instance = None
    /\ initialized = FALSE
    /\ logger_instance = None
    /\ self = NoFields
    /\ logger_level = 0
    /\ handlers = <<>>
    /\ returned = {}
    /\ \E use_colors \in BOOLEAN :
          formatter = [use_colors |-> use_colors, fmt |-> base_format]
    /\ record = NoRecord
    /\ call = NoCall
    /\ file = <<>>
    /\ threads = [t \in Threads |-> IdleThread]
    /\ objects = <<>>

NextFormatThreads ==
    \E t \in Threads :
        \/ FormatEnter(t)
        \/ FormatLine74(t)
        \/ FormatLine81(t)
        \/ FormatLine85(t)
        \/ FormatLine91Read(t)
        \/ FormatLine91Write(t)
        \/ FormatLine94(t)
        \/ FormatLine97(t)

SpecFormatThreads == InitFormatThreads /\ [][NextFormatThreads]_vars

\* two threads and the logger a constructor call has made: each thread calls
\* reconfigure or info once
InitReconfigureThreads ==
    /\ cls_instance = New(None)
    /\ initialized = TRUE
    /\ logger_instance = None
    /\ returned = {cls_instance}
    /\ \E kw \in {NoKeywords, [NoKeywords EXCEPT !.fileout_path = "None"]} :
          self = InitFields(kw)
    /\ logger_level = LevelNo(self.level)
    /\ handlers = BuildHandlers(self.fileout_path, self.terminal, self.use_colors)
    /\ formatter = NoFormatter
    /\ record = NoRecord
    /\ call = NoCall
    /\ file = <<>>
    /\ threads = [t \in Threads |-> IdleThread]
    /\ objects = <<>>

NextReconfigureThreads ==
    \E t \in Threads :
        \/ ReconfigureEnter(t)
        \/ ReconfigureField(t)
        \/ ReconfigureLine264(t)
        \/ ReconfigureLine283(t)
        \/ ReconfigureLine286(t)
        \/ ReconfigureLine293(t)
        \/ ReconfigureLine295(t)
        \/ InfoCall(t)

SpecReconfigureThreads == InitReconfigureThreads /\ [][NextReconfigureThreads]_vars

\* two threads right after import, no instance yet: each calls EnhancedLogger(...)
\* or get_logger(...) once
InitConstructThreads ==
    /\ cls_instance = None
    /\ initialized = FALSE
    /\ logger_instance = None
    /\ self = NoFields
    /\ logger_level = 0
    /\ handlers = <<>>
    /\ returned = {}
    /\ formatter = NoFormatter
    /\ record = NoRecord
    /\ call = NoCall
    /\ file = <<>>
    /\ threads = [t \in Threads |-> IdleThread]
    /\ objects = <<>>

NextConstructThreads ==
    \E t \in Threads :
        \/ ConstructEnter(t)
        \/ NewLine162(t)
        \/ NewLine163(t)
        \/ NewLine164(t)
        \/ NewLine165(t)
        \/ InitLine192(t)
        \/ InitLine195(t)
        \/ InitLine214(t)
        \/ InitLine217(t)
        \/ InitLine224(t)
        \/ InitLine234(t)
        \/ GetLoggerEnter(t)
        \/ GetLoggerLine575(t)
        \/ GetLoggerLine576(t)
        \/ GetLoggerLine588(t)
        \/ GetLoggerLine600(t)

SpecConstructThreads == InitConstructThreads /\ [][NextConstructThreads]_vars

(***************************************************************************)
(* What the claims speak of, stated from the call's inputs.               *)
(***************************************************************************)
IsFormatCall == call.op = "_format_message"
IsLogCall == call.op \in Methods

\* the truncation settings in effect for the call: the call's own when given,
\* the instance's otherwise
EffectiveTruncate == IF call.truncate.some THEN call.truncate.v ELSE self.truncate
EffectiveLength ==
    IF call.truncate_length.some THEN call.truncate_length.v ELSE self.truncate_length

\* truncation does not trigger on a text
NotTriggered(text) == ~EffectiveTruncate \/ Len(text) <= EffectiveLength

\* user_context is given and holds the key "uid"
HasUid(uc) == uc.some /\ \E i \in 1..Len(uc.v.e) : uc.v.e[i][1].s = UID

\* the suffix of a truncated message of length n
TruncatedSuffix(n) == TXT_TRUNCATED \o IntToStr(n) \o <<"]">>

RECURSIVE Specifiers(_)
\* the specifier characters of a template in order ("%%" is none); "?" stands for
\* a "%" that ends the template
Specifiers(m) ==
    IF m = <<>> THEN <<>>
    ELSE IF Head(m) # "%" THEN Specifiers(Tail(m))
    ELSE IF Len(m) = 1 THEN <<"?">>
    ELSE IF m[2] = "%" THEN Specifiers(SubSeq(m, 3, Len(m)))
    ELSE <<m[2]>> \o Specifiers(SubSeq(m, 3, Len(m)))

\* count and types match: one argument per specifier, any value for %s, an int
\* for %d
Matches(m, args) ==
    LET sp == Specifiers(m) IN
    /\ Len(sp) = Len(args)
    /\ \A i \in 1..Len(sp) : sp[i] = "s" \/ (sp[i] = "d" /\ args[i].t = "int")

RECURSIVE Substituted(_, _)
\* the template with the arguments substituted positionally, for matching arguments
Substituted(m, args) ==
    IF m = <<>> THEN <<>>
    ELSE IF Head(m) # "%" THEN <<Head(m)>> \o Substituted(Tail(m), args)
    ELSE IF m[2] = "%" THEN <<"%">> \o Substituted(SubSeq(m, 3, Len(m)), args)
    ELSE (IF m[2] = "s" THEN PyStr(Head(args)) ELSE IntToStr(Head(args).n))
             \o Substituted(SubSeq(m, 3, Len(m)), Tail(args))

\* C1: with JSON mode off, no user context and no truncation triggered, a direct
\* call with a non-empty argument tuple that matches the template's specifiers in
\* count and types returns the template with the arguments substituted
\* positionally.
C1_SubstitutesMatchingArgs ==
    (/\ IsFormatCall
     /\ call.args # <<>>
     /\ Matches(call.message, call.args)
     /\ ~call.json_format.v
     /\ ~call.user_context.some
     /\ NotTriggered(Substituted(call.message, call.args)))
    => call.result = Returned(Substituted(call.message, call.args))

\* the scenario of the claim: "Value: %s, Count: %d" with ("test", 42)
C1_Witness ==
    /\ IsFormatCall
    /\ call.message = ValueCountTemplate
    /\ call.args = ValueCountArgs
    /\ ~call.json_format.v
    /\ ~call.user_context.some
    /\ NotTriggered(Substituted(call.message, call.args))
    /\ call.result.val = <<"V", "a", "l", "u", "e", ":", " ", "t", "e", "s", "t", ",", " ", "C", "o", "u", "n", "t", ":", " ", "4", "2">>

\* C2: with no arguments, no user context and no truncation triggered, the result
\* of a direct call is the template unchanged, "%" characters included, JSON mode
\* on or off.
C2_NoArgsVerbatim ==
    (/\ IsFormatCall
     /\ call.args = <<>>
     /\ ~call.user_context.some
     /\ NotTriggered(call.message))
    => call.result = Returned(call.message)

C2_Witness ==
    /\ IsFormatCall
    /\ call.args = <<>>
    /\ call.message = <<"%","d","%">>
    /\ ~call.user_context.some
    /\ call.json_format.v
    /\ NotTriggered(call.message)
    /\ call.result.val = <<"%","d","%">>

\* the detail of the first argument json.dumps fails on
RECURSIVE FirstJsonError(_)
FirstJsonError(args) ==
    IF JsonDumps(Head(args)).ok THEN FirstJsonError(Tail(args))
    ELSE JsonDumps(Head(args)).detail

EncodingFails(args) == \E i \in 1..Len(args) : ~JsonDumps(args[i]).ok

\* C3: in JSON mode, when encoding an argument raises, a direct call returns
\* exactly "{template} - [JSON FORMAT ERROR: {detail}] - Args: {args}": no
\* interpolation, no uid prefix and no truncation, whatever the user context and
\* the truncation settings.
C3_JsonErrorIsTerminal ==
    (/\ IsFormatCall
     /\ call.json_format.v
     /\ call.args # <<>>
     /\ EncodingFails(call.args))
    => call.result = Returned(call.message \o TXT_JSON_FORMAT_ERROR
                                  \o FirstJsonError(call.args) \o TXT_ARGS
                                  \o PyStrArgs(call.args))

\* a JSON failure with a uid in the user context and truncation to 0 in effect
C3_Witness ==
    /\ IsFormatCall
    /\ call.json_format.v
    /\ call.message = <<"%","s">>
    /\ call.args = <<ArgBadKey>>
    /\ HasUid(call.user_context)
    /\ EffectiveTruncate
    /\ EffectiveLength = 0
    /\ call.result.val = 
        <<"%", "s", " ", "-", " ", "[", "J", "S", "O", "N", " ", "F", "O", "R", "M", "A", "T", " ", "E", "R", "R", "O", "R", ":", " ", "k", "e", "y", "s", " ", "m", "u", "s", "t", " ", "b", "e", " ", "s", "t", "r", ",", " ", "i", "n", "t", ",", " ", "f", "l", "o", "a", "t", ",", " ", "b", "o", "o", "l", " ", "o", "r", " ", "N", "o", "n", "e", ",", " ", "n", "o", "t", " ", "t", "u", "p", "l", "e", "]", " ", "-", " ", "A", "r", "g", "s", ":", " ", "(", "{", "(", "1", ",", ")", ":", " ", "'", "v", "'", "}", ",", ")">>

\* the arguments handed to the % operator: the JSON texts in JSON mode
HandedArgs ==
    IF call.json_format.v /\ call.args # <<>> THEN EncodeArgs(call.args).val
    ELSE call.args

\* the JSON stage does not end the call
JsonStagePasses == ~(call.json_format.v /\ call.args # <<>> /\ EncodingFails(call.args))

\* interpolation raises a TypeError or a ValueError
InterpolationFails ==
    /\ JsonStagePasses
    /\ HandedArgs # <<>>
    /\ ~PyFormat(call.message, HandedArgs).ok
    /\ PyFormat(call.message, HandedArgs).exc \in {"TypeError", "ValueError"}

\* "{template} - [FORMAT ERROR: {detail}] - Args: {args}"
FormatErrorText ==
    call.message \o TXT_FORMAT_ERROR \o PyFormat(call.message, HandedArgs).detail
        \o TXT_ARGS \o PyStrArgs(HandedArgs)

\* str() of the value under "uid"
UidText(uc) == PyStr(uc.v.e[CHOOSE i \in 1..Len(uc.v.e) : uc.v.e[i][1].s = UID][2])

\* a text after the user-context stage and after the truncation stage
WithUid(text) ==
    IF HasUid(call.user_context)
    THEN UidText(call.user_context) \o <<":", " ">> \o text
    ELSE text
Truncated(text) ==
    IF NotTriggered(text) THEN text
    ELSE SliceTo(text, EffectiveLength) \o TruncatedSuffix(Len(text))

\* C4 as claimed: a template/argument mismatch returns the annotated text as a
\* terminal outcome, with no uid prefix and no truncation.
C4_FormatErrorIsTerminal ==
    (IsFormatCall /\ InterpolationFails) => call.result = Returned(FormatErrorText)

\* C4 as the code has it: the annotated text goes on through the user-context
\* stage and the truncation stage like any other message.
C4_FormatErrorGoesOn ==
    (IsFormatCall /\ InterpolationFails)
    => call.result = Returned(Truncated(WithUid(FormatErrorText)))

\* "%d" with ("t",), a uid in the user context, truncation to 2 in effect
C4_Witness ==
    /\ IsFormatCall
    /\ InterpolationFails
    /\ call.message = <<"%","d">>
    /\ call.args = <<ArgStr>>
    /\ ~call.json_format.v
    /\ HasUid(call.user_context)
    /\ EffectiveTruncate
    /\ EffectiveLength = 2
    /\ call.result.val = 
        <<"%", "s", ".", ".", ".", " ", "[", "T", "R", "U", "N", "C", "A", "T", "E", "D", ",", " ", "L", "E", "N", "G", "T", "H", ":", " ", "8", "5", "]">>

\* C5: no call raises: every call of a log method or of _format_message
\* completes with a message.
C5_NeverRaises == call.op # "none" => call.result.raised = "none"

\* the text a call produces with its user context taken away and truncation off
BeforeContext ==
    FormatMessage(self.truncate, self.truncate_length, call.message, call.args,
                  NoContext, JsonFormatParam(call.json_format), SomeBool(FALSE),
                  NoneInt).val

\* the text a call produces with truncation off
BeforeTruncate ==
    FormatMessage(self.truncate, self.truncate_length, call.message, call.args,
                  call.user_context, JsonFormatParam(call.json_format),
                  SomeBool(FALSE), NoneInt).val

\* the user-context stage and the truncation stage are reached
StagesReached == JsonStagePasses /\ call.result.raised = "none"

\* C6: the user-context stage prepends "{uid}: " exactly when user_context is
\* given and holds "uid"; absent, empty or without "uid" it changes nothing.
C6_UidPrefix ==
    (IsFormatCall /\ StagesReached)
    => call.result.val =
          Truncated(IF HasUid(call.user_context)
                    THEN UidText(call.user_context) \o <<":", " ">> \o BeforeContext
                    ELSE BeforeContext)

C6_Witness ==
    /\ IsFormatCall
    /\ StagesReached
    /\ HasUid(call.user_context)
    /\ call.message = <<"A">>
    /\ call.args = <<>>
    /\ ~EffectiveTruncate
    /\ call.result.val = <<"%", "s", ":", " ", "A">>

\* C7 as claimed, for every limit M: a message longer than M becomes its first M
\* characters and the suffix, of length M plus the suffix's; a message of length
\* at most M is unchanged.
C7_TruncationAnyLimit ==
    (IsFormatCall /\ StagesReached /\ EffectiveTruncate)
    => LET text == BeforeTruncate
           L == Len(text)
           M == EffectiveLength
       IN IF L > M
          THEN /\ call.result.val = SubSeq(text, 1, M) \o TruncatedSuffix(L)
               /\ Len(call.result.val) = M + Len(TruncatedSuffix(L))
          ELSE call.result.val = text

\* C7 for the limits M >= 0.
C7_TruncationNonNegativeLimit ==
    (IsFormatCall /\ StagesReached /\ EffectiveTruncate /\ EffectiveLength >= 0)
    => LET text == BeforeTruncate
           L == Len(text)
           M == EffectiveLength
       IN IF L > M
          THEN /\ call.result.val = SubSeq(text, 1, M) \o TruncatedSuffix(L)
               /\ Len(call.result.val) = M + Len(TruncatedSuffix(L))
          ELSE call.result.val = text

\* "AAA" with the limit 2
C7_Witness ==
    /\ IsFormatCall
    /\ StagesReached
    /\ EffectiveTruncate
    /\ EffectiveLength = 2
    /\ BeforeTruncate = <<"A","A","A">>
    /\ call.result.val = <<"A", "A", ".", ".", ".", " ", "[", "T", "R", "U", "N", "C", "A", "T", "E", "D", ",", " ", "L", "E", "N", "G", "T", "H", ":", " ", "3", "]">>

\* C8: a log call is truncated by its own truncate / truncate_length when given
\* (False and 0 included) and by the instance's fields as they are at the call
\* otherwise.
C8_EffectiveTruncation ==
    (IsLogCall /\ StagesReached) => call.result.val = Truncated(BeforeTruncate)

\* a call that passes neither, on an instance whose truncate_length has been set
\* to MaxTruncateLength (no constructor default), is truncated at that length
C8_Witness ==
    /\ IsLogCall
    /\ ~call.truncate.some
    /\ ~call.truncate_length.some
    /\ self.truncate
    /\ self.truncate_length = MaxTruncateLength
    /\ call.message = LongMessage
    /\ call.result.val =
          SubSeq(LongMessage, 1, MaxTruncateLength) \o TruncatedSuffix(Len(LongMessage))

\* the JSON text the claim promises for a value: its encoding, or the encoding of
\* str(value) when json.dumps cannot serialize it
PromisedJson(v) ==
    IF JsonDumps(v).ok THEN JsonDumps(v).val ELSE JsonString(PyStr(v))

\* the same call with JSON mode off and the given arguments
WithArgs(args) ==
    FormatMessage(self.truncate, self.truncate_length, call.message, args,
                  call.user_context, FALSE, call.truncate, call.truncate_length)

\* C9 as claimed: in JSON mode every argument is replaced by its JSON text before
\* interpolation, and a value json.dumps cannot serialize by the JSON text of its
\* str(), never ending in an error outcome.
C9_JsonEncodesEveryValue ==
    (IsFormatCall /\ call.json_format.v /\ call.args # <<>>)
    => call.result =
          WithArgs([i \in 1..Len(call.args) |-> PyStrVal(PromisedJson(call.args[i]))])

\* C9 for the arguments json.dumps(default=str) accepts; the nested dict and the
\* set come out as Python prints them.
C9_JsonEncodesAcceptedValues ==
    /\ (IsFormatCall /\ call.json_format.v /\ call.args # <<>>
            /\ ~EncodingFails(call.args))
       => call.result =
             WithArgs([i \in 1..Len(call.args) |-> PyStrVal(PromisedJson(call.args[i]))])
    /\ (IsFormatCall /\ call.json_format.v /\ call.message = <<"%","s">>
            /\ ~call.user_context.some /\ ~EffectiveTruncate)
       => /\ call.args = <<ArgNested>> => call.result.val = 
                <<"{", "\n", " ", " ", " ", " ", "\"", "k", "\"", ":", " ", "{", "\n", " ", " ", " ", " ", " ", " ", " ", " ", "\"", "n", "\"", ":", " ", "1", "\n", " ", " ", " ", " ", "}", "\n", "}">>
          /\ call.args = <<ArgSet>> => call.result.val = <<"\"", "{", "1", "}", "\"">>

\* the scenario with two arguments, both encoded: "test" becomes "\"test\"" and
\* 42 becomes the text "42", which %d then refuses
C9_Witness ==
    /\ IsFormatCall
    /\ call.json_format.v
    /\ call.message = ValueCountTemplate
    /\ call.args = ValueCountArgs
    /\ ~call.user_context.some
    /\ ~EffectiveTruncate
    /\ call.result.val = 
        <<"V", "a", "l", "u", "e", ":", " ", "%", "s", ",", " ", "C", "o", "u", "n", "t", ":", " ", "%", "d", " ", "-", " ", "[", "F", "O", "R", "M", "A", "T", " ", "E", "R", "R", "O", "R", ":", " ", "%", "d", " ", "f", "o", "r", "m", "a", "t", ":", " ", "a", " ", "r", "e", "a", "l", " ", "n", "u", "m", "b", "e", "r", " ", "i", "s", " ", "r", "e", "q", "u", "i", "r", "e", "d", ",", " ", "n", "o", "t", " ", "s", "t", "r", "]", " ", "-", " ", "A", "r", "g", "s", ":", " ", "(", "'", "\"", "t", "e", "s", "t", "\"", "'", ",", " ", "'", "4", "2", "'", ")">>

\* C10: a log call that does not pass json_format is formatted with the
\* instance's json_format.
C10_InstanceJsonFormatIsDefault ==
    (IsLogCall /\ ~call.json_format.some /\ call.args # <<>>)
    => call.result =
          FormatMessage(self.truncate, self.truncate_length, call.message, call.args,
                        call.user_context, self.json_format, call.truncate,
                        call.truncate_length)

(***************************************************************************)
(* The instance and its life: construction, get_logger, reconfigure.      *)
(***************************************************************************)
IsConstructorCall == call.op = "EnhancedLogger"
IsReconfigureCall == call.op = "reconfigure"
IsGetLoggerCall == call.op = "get_logger"

\* the call in progress has returned: no exception left it
HasReturned == call.result.raised = "none"

\* C11: after any sequence of EnhancedLogger(...) and get_logger(...) calls,
\* every call has returned the same single instance.
C11_Singleton ==
    /\ \A a, b \in returned : a = b
    /\ (IsConstructorCall \/ IsGetLoggerCall) /\ HasReturned
       => call.instance # None /\ returned = {call.instance}

\* get_logger returns after a direct constructor call: it was handed DEBUG and
\* the level is the constructor's default, and both calls returned one object
C11_Witness ==
    /\ IsGetLoggerCall
    /\ HasReturned
    /\ call.kw.level = "DEBUG"
    /\ self.level = "INFO"
    /\ call.instance = cls_instance
    /\ returned = {cls_instance}

\* C12: a constructor call made when the instance is initialized leaves every
\* configuration field and the handler list as they were, whatever its arguments.
C12_InitializationOnlyOnce ==
    [][(call'.op = "EnhancedLogger" /\ initialized)
       => (self' = self /\ handlers' = handlers /\ logger_level' = logger_level)]_vars

\* a later constructor call that passed level DEBUG and terminal False has
\* returned, and the logger still has the first call's defaults
C12_Witness ==
    /\ IsConstructorCall
    /\ HasReturned
    /\ call.kw.level = "DEBUG"
    /\ call.kw.terminal = SomeBool(FALSE)
    /\ self.level = "INFO"
    /\ self.terminal
    /\ Len(handlers) = 2

\* C13: after get_logger(level=X) returns, the logger's level field and the
\* underlying logger's level are X, on the first call and on every later one.
C13_GetLoggerAppliesLevel ==
    (IsGetLoggerCall /\ HasReturned /\ call.kw.level # "omitted")
    => (self.level = call.kw.level /\ logger_level = LevelNo(call.kw.level))

\* the keyword arguments reconfigure leaves alone: those not passed, and
\* fileout_path passed as None
NotGiven(kw) ==
    [name |-> kw.name = "omitted",
     level |-> kw.level = "omitted",
     terminal |-> ~kw.terminal.some,
     fileout_path |-> kw.fileout_path \in {"omitted", "None"},
     json_format |-> ~kw.json_format.some,
     truncate_length |-> ~kw.truncate_length.some,
     truncate |-> ~kw.truncate.some,
     use_colors |-> ~kw.use_colors.some]

FieldNames == DOMAIN NoFields

\* C14: reconfigure changes only the settings passed with a non-None value:
\* every field whose parameter is omitted keeps the value it had, and so does
\* the underlying logger's level when level is omitted.
C14_ReconfigureKeepsOmitted ==
    [][call'.op = "reconfigure"
       => /\ \A f \in FieldNames : NotGiven(call'.kw)[f] => self'[f] = self[f]
          /\ NotGiven(call'.kw).level => logger_level' = logger_level]_vars

\* reconfigure(level="DEBUG") has returned on a logger that was given other values
\* than the defaults before: they are all still there
C14_Witness ==
    /\ IsReconfigureCall
    /\ HasReturned
    /\ call.kw = [NoKeywords EXCEPT !.level = "DEBUG"]
    /\ self = [name |-> "app", level |-> "DEBUG", terminal |-> FALSE,
               fileout_path |-> "None", json_format |-> TRUE, truncate_length |-> 0,
               truncate |-> FALSE, use_colors |-> FALSE]

\* the handlers of one kind in the handler list
HandlersOf(kind) == {i \in 1..Len(handlers) : handlers[i].kind = kind}

\* C15: once constructed, and after any sequence of reconfigure calls, the handler
\* list holds exactly one file handler if and only if fileout_path is set, exactly
\* one stream handler if and only if terminal is true, and nothing else.
C15_HandlersMatchSettings ==
    initialized
    => /\ Cardinality(HandlersOf("file")) = (IF self.fileout_path # "None" THEN 1 ELSE 0)
       /\ Cardinality(HandlersOf("stream")) = (IF self.terminal THEN 1 ELSE 0)
       /\ \A i \in 1..Len(handlers) : handlers[i].kind \in {"file", "stream"}

\* reconfigure(terminal=False) has returned on a logger with a file: the stream
\* handler is gone and the one file handler is there
C15_Witness ==
    /\ IsReconfigureCall
    /\ HasReturned
    /\ call.kw.terminal = SomeBool(FALSE)
    /\ self.fileout_path = DefaultPath
    /\ Len(handlers) = 1
    /\ handlers[1].kind = "file"

\* the sinks attached to the logger
Sinks == {handlers[i].kind : i \in 1..Len(handlers)}

\* how many times the call in progress was delivered to a sink
Deliveries(sink) == Cardinality({i \in 1..Len(call.delivered) : call.delivered[i] = sink})

\* C16: a log call whose severity is at or above the logger's level is delivered
\* exactly once to each attached sink, and a call below the level to no sink.
C16_DeliveredOncePerSink ==
    IsLogCall
    => IF LevelNo(MethodLevel(call.op)) >= logger_level
       THEN /\ \A sink \in Sinks : Deliveries(sink) = 1
            /\ Len(call.delivered) = Cardinality(Sinks)
       ELSE call.delivered = <<>>

(***************************************************************************)
(* ColoredFormatter and the timezone option.                              *)
(***************************************************************************)
IsFormatterCall == call.op = "ColoredFormatter"
IsFormatRecordCall == call.op = "format"

SgrParams == {"0", "1", "2", "3", "4", "5", "6", "7", "8", "9", ";"}

\* the index of the first character of s from i on that is no digit and no ";"
RECURSIVE ParamsEnd(_, _)
ParamsEnd(s, i) ==
    IF i <= Len(s) /\ s[i] \in SgrParams THEN ParamsEnd(s, i + 1) ELSE i

\* an escape sequence ESC [ digits-and-semicolons m starts at index i of s
SgrAt(s, i) ==
    /\ s[i] = ESC
    /\ i + 1 <= Len(s)
    /\ s[i + 1] = "["
    /\ ParamsEnd(s, i + 2) <= Len(s)
    /\ s[ParamsEnd(s, i + 2)] = "m"

RECURSIVE StripFrom(_, _)
StripFrom(s, i) ==
    IF i > Len(s) THEN <<>>
    ELSE IF SgrAt(s, i) THEN StripFrom(s, ParamsEnd(s, i + 2) + 1)
    ELSE <<s[i]>> \o StripFrom(s, i + 1)

\* s with every escape sequence removed
StripAnsi(s) == StripFrom(s, 1)

\* what the formatter returns for the record with colors on
WithColors == ColoredFormatterFormat([formatter EXCEPT !.use_colors = TRUE], record).text

\* C17: for every severity and every record, the output of a formatter with
\* use_colors false holds no escape sequence and is the output with use_colors
\* true with its escape sequences stripped.
C17_PlainIsColoredStripped ==
    (IsFormatRecordCall /\ ~formatter.use_colors)
    => /\ ~Contains(call.result.val, ESC)
       /\ call.result.val = StripAnsi(WithColors)

\* the styling sequence of each severity, and the reset for any other
SeverityStyle(levelno) ==
    CASE levelno = 10 -> <<ESC, "[", "9", "4", "m">>
      [] levelno = 20 -> <<ESC, "[", "9", "2", "m">>
      [] levelno = 30 -> <<ESC, "[", "9", "3", "m">>
      [] levelno = 40 -> <<ESC, "[", "9", "1", "m">>
      [] levelno = 50 -> <<ESC, "[", "4", "1", "m", ESC, "[", "3", "7", "m", ESC, "[", "1", "m">>
      [] OTHER -> <<ESC, "[", "0", "m">>

\* the level name of a record in its severity's styling, a reset right after
Styled(r) == SeverityStyle(r.levelno) \o r.levelname \o <<ESC, "[", "0", "m">>

StartsWith(s, prefix) == Len(prefix) <= Len(s) /\ SubSeq(s, 1, Len(prefix)) = prefix

\* C18: with colors on, format returns, the level name it puts out is the record's
\* level name wrapped in the styling sequence of the record's severity and followed
\* at once by a reset; a severity without a mapping gets the reset as its styling.
C18_LevelNameInSeverityStyle ==
    [][(call'.op = "format" /\ formatter.use_colors)
       => /\ call'.result.raised = "none"
          /\ record'.levelname = Styled(record)
          /\ Head(formatter.fmt) = F_LEVELNAME
             => StartsWith(call'.result.val, Styled(record) \o <<":">>)
          /\ ~Contains(formatter.fmt, F_LEVELNAME)
             => call'.result.val = record.msg]_vars

\* a new record of the unmapped level 99 formatted with "%(levelname)s:%(message)s"
C18_Witness ==
    /\ IsFormatRecordCall
    /\ formatter.use_colors
    /\ record.levelno = 99
    /\ call.result.val =
         <<ESC, "[", "0", "m", "L", "e", "v", "e", "l", " ", "9", "9",
           ESC, "[", "0", "m", ":", "m", "s", "g">>

\* C19: a ColoredFormatter can be configured with a zone name that does not
\* resolve: nothing raises, and a formatter is there to render timestamps in
\* local time (with one diagnostic at the first rendering).
C19_TimezoneFallback ==
    (IsFormatterCall /\ call.kw.timezone = InvalidZone)
    => (HasReturned /\ formatter # NoFormatter)

\* C20: EnhancedLogger(...), reconfigure(...) and get_logger(...) accept a
\* timezone argument, and afterwards the logger's timezone field is the value given.
C20_TimezoneIsAnOption ==
    ((IsConstructorCall \/ IsReconfigureCall \/ IsGetLoggerCall)
        /\ call.kw.timezone # "omitted")
    => /\ HasReturned
       /\ "timezone" \in DOMAIN self
       /\ self["timezone"] = call.kw.timezone


(***************************************************************************)
(* The order of the stages.                                               *)
(***************************************************************************)
\* the text after interpolation: the template itself without arguments, the
\* template with the arguments substituted when they match it, and what the call
\* produces without user context and truncation otherwise
Interpolated ==
    IF HandedArgs = <<>> THEN call.message
    ELSE IF Matches(call.message, HandedArgs) THEN Substituted(call.message, HandedArgs)
    ELSE BeforeContext

\* C21: the stages run in the order JSON-encode, interpolate, uid prefix,
\* truncate: the uid is put in front of the interpolated text as it is (a "%" in
\* it is no specifier), and the limit is compared against, and LENGTH reports,
\* the length of the text with its "{uid}: " prefix.
C21_StageOrder ==
    (IsFormatCall /\ StagesReached /\ HasUid(call.user_context))
    => LET prefixed == UidText(call.user_context) \o <<":", " ">> \o Interpolated
       IN IF EffectiveTruncate /\ Len(prefixed) > EffectiveLength
          THEN call.result.val =
                  SliceTo(prefixed, EffectiveLength) \o TXT_TRUNCATED
                      \o IntToStr(Len(prefixed)) \o <<"]">>
          ELSE call.result.val = prefixed

\* "%s" with ("t",) under the uid "%s" and the limit 2: the prefixed text
\* "%s: t" has 5 characters, 2 of them are kept, both of the uid
C21_Witness ==
    /\ IsFormatCall
    /\ StagesReached
    /\ call.message = <<"%","s">>
    /\ call.args = <<ArgStr>>
    /\ ~call.json_format.v
    /\ HasUid(call.user_context)
    /\ UidText(call.user_context) = <<"%","s">>
    /\ EffectiveTruncate
    /\ EffectiveLength = 2
    /\ call.result.val =
         <<"%", "s", ".", ".", ".", " ", "[", "T", "R", "U", "N", "C", "A", "T", "E", "D", ",", " ", "L", "E", "N", "G", "T", "H", ":", " ", "5", "]">>


(***************************************************************************)
(* get_logger after the first call, and after a direct construction.      *)
(***************************************************************************)
\* the file handlers of a handler list
FileHandlers(hs) == {i \in 1..Len(hs) : hs[i].kind = "file"}

C30_TemplateUnchanged ==
    [][call'.op = "format"
       => /\ formatter'.fmt = formatter.fmt
          /\ formatter'.use_colors = formatter.use_colors
          /\ formatter'.fmt \in FormatTemplates
          /\ ~Contains(formatter'.fmt, ESC)
          /\ \E fmt \in FormatTemplates :
                call'.result.val =
                   ColoredFormatterFormat([use_colors |-> formatter.use_colors,
                                           fmt |-> fmt], record).text]_vars

\* a formatter with colors on and the logger's template has formatted records
\* twice over and its template is the logger's template still
C30_Witness ==
    /\ IsFormatRecordCall
    /\ formatter.use_colors
    /\ formatter.fmt = base_format
    /\ record.formatted = MaxFormats
    /\ record.asctime = Timestamp


(***************************************************************************)
(* The file sink.                                                         *)
(***************************************************************************)
\* "LEVEL:[TIMESTAMP]FILE:LINE:MESSAGE" for a log method and its message
PlainLine(op, message) ==
    LevelName(LevelNo(MethodLevel(op))) \o <<":", "[">> \o Timestamp
        \o <<"]", "t", "e", "s", "t", ".", "p", "y", ":", "4", "2", ":">> \o message

\* a file handler is attached
HasFileSink(hs) == \E i \in 1..Len(hs) : hs[i].kind = "file"

\* C22: the file is only appended to: every call leaves the lines that are in
\* the file where they are, unmodified; a log call delivered to the file sink
\* adds its one line at the end, so the lines are in the order of the calls; no
\* other call writes.
C22_FileAppendOnly ==
    [][/\ Len(file') >= Len(file)
       /\ SubSeq(file', 1, Len(file)) = file
       /\ call'.op \notin Methods => file' = file
       /\ call'.op \in Methods
          => file' = IF HasFileSink(handlers) /\ call'.result.raised = "none"
                        /\ LevelNo(MethodLevel(call'.op)) >= logger_level
                     THEN Append(file, PlainLine(call'.op, call'.result.val))
                     ELSE file]_vars

\* two lines are in the file in the order of their calls, and a reconfigure call
\* made after them has returned with the file sink attached
C22_Witness ==
    /\ IsReconfigureCall
    /\ HasReturned
    /\ HasFileSink(handlers)
    /\ file = <<PlainLine("info", <<"m","s","g">>), PlainLine("error", <<"A">>)>>

\* C28: the file handler, when there is one, comes before the stream handler in
\* the handler list, and no line in the file holds an escape sequence, with both
\* sinks attached and colors on too.
C28_FileBeforeStream ==
    /\ \A i, j \in 1..Len(handlers) :
          (handlers[i].kind = "file" /\ handlers[j].kind = "stream") => i < j
    /\ \A i \in 1..Len(file) : ~Contains(file[i], ESC)

\* a warning has gone to both sinks with colors on, and its line in the file is
\* the plain one
C28_Witness ==
    /\ call.op = "warning"
    /\ call.delivered = <<"file", "stream">>
    /\ handlers[2].use_colors
    /\ file # <<>>
    /\ file[Len(file)] =
         <<"W","A","R","N","I","N","G",":","[","0","9",":","3","0","]",
           "t","e","s","t",".","p","y",":","4","2",":","m","s","g">>


(***************************************************************************)
(* Calls that run at the same time.                                       *)
(***************************************************************************)
\* the thread's call has returned
Done(t) == threads[t].pc = "done"

\* what the thread's format call returns when it runs alone: the record as it was
\* given, the formatter with the template it was made with
FormatAlone(t) ==
    ColoredFormatterFormat(
        [use_colors |-> formatter.use_colors, fmt |-> base_format],
        LogRecord(threads[t].record.levelno, threads[t].record.msg)).text

\* C23: when two threads run format on one formatter, whatever the interleaving,
\* each call returns what it returns alone, and when both have returned the
\* formatter's template is the one it had.
C23_FormatIsThreadSafe ==
    /\ \A t \in Threads :
          (threads[t].op = "format" /\ Done(t)) => threads[t].result = FormatAlone(t)
    /\ (\A t \in Threads : threads[t].pc \in {"idle", "done"})
       => formatter.fmt = base_format


\* every thread has made its call and the call has returned
AllDone == \A t \in Threads : Done(t)

\* C24: two reconfigure calls that run at the same time: when both have
\* returned, every field one of them was given holds a value one of them wrote,
\* and the handler list is the one a single reconfigure builds for the final
\* fields, with at most one file handler and at most one stream handler.
C24_ReconfigureLastWriterWins ==
    (AllDone /\ \A t \in Threads : threads[t].op = "reconfigure")
    => /\ \A f \in FieldNames :
             (\E t \in Threads : IsGiven(threads[t].kw, f))
             => \E t \in Threads :
                   /\ IsGiven(threads[t].kw, f)
                   /\ self[f] = ReconfigureFields(NoFields, threads[t].kw)[f]
       /\ logger_level = LevelNo(self.level)
       /\ handlers = BuildHandlers(self.fileout_path, self.terminal, self.use_colors)
       /\ Cardinality(HandlersOf("file")) <= 1
       /\ Cardinality(HandlersOf("stream")) <= 1

\* the fields and the level alone, for two reconfigure calls that have returned
C24_FieldsOnly ==
    (AllDone /\ \A t \in Threads : threads[t].op = "reconfigure")
    => /\ \A f \in FieldNames :
             (\E t \in Threads : IsGiven(threads[t].kw, f))
             => \E t \in Threads :
                   /\ IsGiven(threads[t].kw, f)
                   /\ self[f] = ReconfigureFields(NoFields, threads[t].kw)[f]
       /\ logger_level = LevelNo(self.level)


\* the sinks the fields call for
Configured ==
    (IF self.fileout_path # "None" THEN 1 ELSE 0) + (IF self.terminal THEN 1 ELSE 0)

\* thread t is the one thread inside reconfigure, past the clearing of the
\* handler list (line 284) and before its last handler is added
InWindow(t) ==
    /\ threads[t].op = "reconfigure"
    /\ threads[t].pc \in {"286", "293", "295"}
    /\ \A u \in Threads \ {t} : threads[u].op # "reconfigure"

\* C29: reconfigure is not atomic with respect to logging: between the clearing
\* of the handler list and the adding of the handlers the list holds nothing, or
\* the file handler only, and a log call of another thread made then is
\* delivered to the handlers the list holds, not to every configured sink.
C29_ReconfigureWindow ==
    [][\A t \in Threads : InWindow(t)
          => /\ threads[t].pc = "286" => handlers = <<>>
             /\ threads[t].pc \in {"293", "295"}
                => /\ \A i \in 1..Len(handlers) : handlers[i].kind = "file"
                   /\ Len(handlers) = (IF self.fileout_path # "None" THEN 1 ELSE 0)
             /\ \/ threads[t].pc = "286" /\ Configured > 0
                \/ threads[t].pc \in {"293", "295"} /\ self.terminal
                => Len(handlers) < Configured
             /\ \A u \in Threads :
                   (threads[u].pc = "idle" /\ threads'[u].op = "info")
                   => /\ Len(threads'[u].delivered) <= Len(handlers)
                      /\ \A i \in 1..Len(threads'[u].delivered) :
                            threads'[u].delivered[i] = "file"]_vars

\* thread 1 is in reconfigure(terminal=True) right after the clearing, the logger
\* is configured for a file and the terminal at level INFO, and the info call of
\* thread 2 has returned delivered to no sink
C29_Witness ==
    /\ threads # <<>>
    /\ At(1, "reconfigure", "286")
    /\ threads[1].kw = [NoKeywords EXCEPT !.terminal = SomeBool(TRUE)]
    /\ threads[2].op = "info"
    /\ Done(2)
    /\ threads[2].delivered = <<>>
    /\ self.terminal
    /\ self.fileout_path = DefaultPath
    /\ logger_level = LevelNo("INFO")
    /\ handlers = <<>>


\* C25: when the threads call EnhancedLogger(...) or get_logger(...) at the same
\* time before an instance exists, one object is created, every call returns
\* it, and the body of __init__ runs once.
C25_SingletonUnderThreads ==
    /\ Len(objects) <= 1
    /\ \A t, u \in Threads :
          (Done(t) /\ Done(u)) => threads[t].instance = threads[u].instance
    /\ Cardinality({t \in Threads : threads[t].body}) <= 1

====
